---- MODULE Spec2Model ----
(***************************************************************************)
(* Model of the NestJS Auth.js integration: the authentication guard       *)
(* (auth.guards.ts), the runtime selector (adapter.factory.ts), the inbound *)
(* and outbound translators (utils/http-adapters.ts), the middleware       *)
(* (auth.middleware.ts), the session projection (auth.session.ts), the     *)
(* roles guard (roles.guard.ts) and the module that registers the guards   *)
(* (auth.module.ts).                                                       *)
(*                                                                         *)
(* JavaScript values are records with a "kind" field, so that values of    *)
(* different JavaScript types can be compared.                             *)
(***************************************************************************)
EXTENDS Integers, Sequences, FiniteSets, TLC

VARIABLES
    adapterHost,   \* constructor name of adapterHost.httpAdapter, "none" before a server is attached
    httpAdapter,   \* MixinAuthGuard.httpAdapter: the guard's cached adapter, "none" while unset
    options,       \* MixinAuthGuard.options: the module-level static options
    nodeEnv,       \* process.env.NODE_ENV
    reqs,          \* the native request objects and the canActivate call suspended on each
    last,          \* the canActivate call that ended last
    started,       \* number of canActivate calls started so far
    webIn,         \* inbound translator: the native request handed to toWebRequest
    webOut,        \* inbound translator: what toWebRequest produced for webIn
    mw,            \* AuthMiddleware: its adapter cache, the position of use(), the calls of next
    webResponse,   \* the engine's response that toHttpResponse is writing
    res,           \* the native response: the write calls made on it, and its state
    nodeStream,    \* the Node stream that relays the body of webResponse
    coreSession,   \* session projection: the raw session handed to AuthSession.fromCore
    publicSession, \* session projection: what fromCore(coreSession)?.toJSON() ?? null gave
    pipeline       \* the global guards of the module and the request that is passing them

vars == <<adapterHost, httpAdapter, options, nodeEnv, reqs, last, started, webIn, webOut,
          mw, webResponse, res, nodeStream, coreSession, publicSession, pipeline>>

guardVars == <<adapterHost, httpAdapter, options, nodeEnv, reqs, last, started>>

webVars == <<webIn, webOut>>

outVars == <<mw, webResponse, res, nodeStream>>

sessionVars == <<coreSession, publicSession>>

rolesVars == <<pipeline>>

-----------------------------------------------------------------------------
(* Bounds *)

MaxCalls == 2

-----------------------------------------------------------------------------
(* JavaScript values *)

Undefined == [kind |-> "undefined"]

Null == [kind |-> "null"]

\* a truthy value that is not an object (a non-empty string, true, a number)
Scalar == [kind |-> "scalar"]

\* a user object as the engine's session callback produced it
UserObject(id) == [kind |-> "object", name |-> id]

\* a raw session object of the engine; user is Undefined when the key is absent
SessionObject(u) == [kind |-> "session", user |-> u]

IsNullish(v) == v.kind \in {"undefined", "null"}

\* typeof value === 'object' && value !== null
isObjectRecord(v) == v.kind \in {"object", "session"}

toRecord(v) == IF isObjectRecord(v) THEN v ELSE Null

-----------------------------------------------------------------------------
(* Errors *)

JsError(t, m) == [type |-> t, message |-> m]

NoError == [type |-> "none", message |-> ""]

\* the boolean true that canActivate resolves to
True == [kind |-> "true"]

Returned(v) == [threw |-> FALSE, error |-> NoError, value |-> v]

Thrown(e) == [threw |-> TRUE, error |-> e, value |-> Undefined]

-----------------------------------------------------------------------------
(* Configuration layers: a layer is a function from the keys it contains  *)
(* to their values.                                                       *)

Spread(a, b) ==
    [k \in (DOMAIN a) \cup (DOMAIN b) |-> IF k \in DOMAIN b THEN b[k] ELSE a[k]]

EmptyLayer == [k \in {} |-> ""]

defaultOptions(env) ==
    [session |-> "jwt/86400/3600",
     property |-> "user",
     basePath |-> "/auth",
     trustHost |-> IF env = "development" THEN "true" ELSE "false",
     csrf |-> "true",
     useSecureCookies |-> IF env = "production" THEN "true" ELSE "false",
     callbacks |-> "redirect"]

\* faulty variant: the per-call options are spread before the static ones
MergeOptions_StaticLast(env, static, dyn) ==
    Spread(Spread(Spread([providers |-> "[]"], defaultOptions(env)), dyn), static)

\* { providers: [], ...defaultOptions, ...this.options, ...(await this.getAuthenticateOptions(context)) }
MergeOptions(env, static, dyn) ==
    Spread(Spread(Spread([providers |-> "[]"], defaultOptions(env)), static), dyn)

\* const config = { ...this.options } of AuthMiddleware.use
MiddlewareConfig(static) == Spread(EmptyLayer, static)

\* options.providers?.length
ProvidersLength(cfg) ==
    IF "providers" \notin DOMAIN cfg THEN 0
    ELSE IF cfg["providers"] = "[]" THEN 0 ELSE 1

\* !options.secret
SecretMissing(cfg) ==
    IF "secret" \notin DOMAIN cfg THEN TRUE ELSE cfg["secret"] = ""

\* mergedOptions.property ?? defaultOptions.property
PropertyName(cfg, env) ==
    IF "property" \in DOMAIN cfg THEN cfg["property"] ELSE defaultOptions(env)["property"]

-----------------------------------------------------------------------------
(* Runtime selector: adapter.factory.ts and getOrCreateAdapter *)

Runtimes == {"none", "ExpressAdapter", "FastifyAdapter", "KoaAdapter"}

\* faulty variant: a runtime that is not recognised is served by the Express adapter
AdapterFactoryCreate_DefaultsToExpress(host) ==
    IF host = "none" THEN Thrown(JsError("Error", "No HTTP adapter found"))
    ELSE IF host = "FastifyAdapter" THEN Returned([kind |-> "adapter", name |-> "FastifyAdapter"])
    ELSE Returned([kind |-> "adapter", name |-> "ExpressAdapter"])

\* AdapterFactory.create: the adapter is chosen by the runtime's constructor name;
\* the one runtime of Runtimes without an adapter is KoaAdapter
AdapterFactoryCreate(host) ==
    IF host = "none" THEN Thrown(JsError("Error", "No HTTP adapter found"))
    ELSE IF host = "ExpressAdapter" THEN Returned([kind |-> "adapter", name |-> "ExpressAdapter"])
    ELSE IF host = "FastifyAdapter" THEN Returned([kind |-> "adapter", name |-> "FastifyAdapter"])
    ELSE Thrown(JsError("Error", "Unsupported HTTP adapter: KoaAdapter"))

\* getOrCreateAdapter: value is the adapter to use, which is also the new cache
getOrCreateAdapter(cache, host) ==
    IF cache # "none" THEN Returned([kind |-> "adapter", name |-> cache])
    ELSE IF host = "none"
         THEN Thrown(JsError("Error", "No HTTP adapter found. Ensure app.init() is called."))
         ELSE AdapterFactoryCreate(host)

-----------------------------------------------------------------------------
(* Session projection as the guard uses it: AuthSession.fromCore(core)?.toJSON() *)

\* new AuthSession(src).user: a copy of the source user when it is an object, else null
ProjectedUser(src) ==
    LET srcAsRec == toRecord(src)
        srcUser  == IF srcAsRec.kind = "session" THEN toRecord(srcAsRec.user) ELSE Null
    IN  IF srcUser.kind = "object" THEN srcUser ELSE Null

\* AuthSession.fromCore(coreSession)?.toJSON() ?? null, then publicSession?.user ?? null
PublicUser(core) ==
    IF IsNullish(core) THEN Null ELSE ProjectedUser(core)

-----------------------------------------------------------------------------
(* The engine, Auth(request, options), is opaque: it throws, or it answers *)
(* with a response whose body is the session of the request's cookie.      *)

EngineErrors ==
    {JsError("Error", "engine failure"),
     JsError("UnauthorizedException", "denied upstream"),
     JsError("string", "boom")}

\* JSON bodies of a session response for the holder of cookie c
SessionPayloads(c) ==
    {Null, Scalar,
     SessionObject(Undefined), SessionObject(Null), SessionObject(UserObject(c))}

EngineOutcomes(c) ==
    {[kind |-> "throw", error |-> e, ok |-> FALSE, body |-> Undefined] : e \in EngineErrors}
    \cup {[kind |-> "response", error |-> NoError, ok |-> FALSE, body |-> Undefined]}
    \cup {[kind |-> "response", error |-> NoError, ok |-> TRUE, body |-> [kind |-> "unparsable"]]}
    \cup {[kind |-> "response", error |-> NoError, ok |-> TRUE, body |-> b] : b \in SessionPayloads(c)}

-----------------------------------------------------------------------------
(* getSession, split at its one suspension point, the engine call *)

\* faulty variant: the test for a configured provider is missing
getSessionPreconditions_NoProviderTest(cfg, env) ==
    IF SecretMissing(cfg) /\ env = "production"
    THEN Thrown(JsError("Error", "AUTH_SECRET is required in production"))
    ELSE Returned(Undefined)

\* faulty variant: the secret is required whatever NODE_ENV is
getSessionPreconditions_NoEnvTest(cfg, env) ==
    IF ProvidersLength(cfg) = 0
    THEN Thrown(JsError("Error", "No authentication providers configured"))
    ELSE IF SecretMissing(cfg)
         THEN Thrown(JsError("Error", "AUTH_SECRET is required in production"))
         ELSE Returned(Undefined)

\* getSession up to the engine call: the configuration preconditions
getSessionPreconditions(cfg, env) ==
    IF ProvidersLength(cfg) = 0
    THEN Thrown(JsError("Error", "No authentication providers configured"))
    ELSE IF SecretMissing(cfg) /\ env = "production"
         THEN Thrown(JsError("Error", "AUTH_SECRET is required in production"))
         ELSE Returned(Undefined)

\* faulty variant: a body that does not parse raises instead of giving null
getSessionInterpret_ParseThrows(o) ==
    IF o.kind = "throw" THEN Thrown(o.error)
    ELSE IF ~o.ok THEN Returned(Null)
    ELSE IF o.body.kind = "unparsable" THEN Thrown(JsError("Error", "Unexpected token"))
    ELSE Returned(o.body)

\* getSession after the engine call: the interpretation of its outcome
getSessionInterpret(o) ==
    IF o.kind = "throw" THEN Thrown(o.error)
    ELSE IF ~o.ok THEN Returned(Null)
    ELSE IF o.body.kind = "unparsable" THEN Returned(Null)
    ELSE Returned(o.body)

\* getSessionOrError: the pair [session, error] made of an outcome of getSession
getSessionOrError(r) ==
    IF r.threw
    THEN [session |-> Null,
          error |-> IF r.error.type = "string" THEN JsError("Error", r.error.message) ELSE r.error]
    ELSE [session |-> r.value, error |-> NoError]

\* faulty variant: the check for an absent user is missing
handleRequest_NoUserCheck(err, user) ==
    IF err.type = "UnauthorizedException" THEN Thrown(err)
    ELSE IF err.type # "none" THEN Thrown(JsError("UnauthorizedException", err.message))
    ELSE Returned(user)

\* faulty variant: the error is rethrown as it came instead of as an UnauthorizedException
handleRequest_Rethrow(err, user) ==
    IF err.type # "none" THEN Thrown(err)
    ELSE IF user.kind = "null" THEN Thrown(JsError("UnauthorizedException", "No user found in session"))
    ELSE Returned(user)

\* handleRequest(err, user)
handleRequest(err, user) ==
    IF err.type = "UnauthorizedException" THEN Thrown(err)
    ELSE IF err.type # "none" THEN Thrown(JsError("UnauthorizedException", err.message))
    ELSE IF user.kind = "null" THEN Thrown(JsError("UnauthorizedException", "No user found in session"))
    ELSE Returned(user)

\* Object.assign(request, { session: coreSession, [property]: user })
Attach(props, property, session, user) ==
    [p \in DOMAIN props |->
        IF p = property THEN user
        ELSE IF p = "session" THEN session
        ELSE props[p]]

\* faulty variant: the public path raises the resolution error instead of ignoring it
handlePublicRoute_FailFast(props, cfg, env, se) ==
    IF se.error.type # "none"
    THEN [result |-> Thrown(se.error), props |-> props]
    ELSE [result |-> Returned(True),
          props  |-> Attach(props, PropertyName(cfg, env), se.session, PublicUser(se.session))]

\* handlePublicRoute from the result of getSessionOrError on: [result, props]
handlePublicRoute(props, cfg, env, se) ==
    [result |-> Returned(True),
     props  |-> Attach(props, PropertyName(cfg, env), se.session, PublicUser(se.session))]

\* faulty variant: the session is attached before the user is checked
handleProtectedRoute_AttachFirst(props, cfg, env, se) ==
    LET user == handleRequest(se.error, PublicUser(se.session))
        attached == Attach(props, PropertyName(cfg, env), se.session, PublicUser(se.session))
    IN  IF user.threw
        THEN [result |-> Thrown(user.error), props |-> attached]
        ELSE [result |-> Returned(True), props |-> attached]

\* handleProtectedRoute from the result of getSessionOrError on: [result, props]
handleProtectedRoute(props, cfg, env, se) ==
    LET user == handleRequest(se.error, PublicUser(se.session))
    IN  IF user.threw
        THEN [result |-> Thrown(user.error), props |-> props]
        ELSE [result |-> Returned(True),
              props  |-> Attach(props, PropertyName(cfg, env), se.session, user.value)]

HandleRoute(isPublic, props, cfg, env, se) ==
    IF isPublic THEN handlePublicRoute(props, cfg, env, se)
    ELSE handleProtectedRoute(props, cfg, env, se)

-----------------------------------------------------------------------------
(* The guard's state machine *)

\* the native request objects, each named by the session cookie it carries
Requests == {"sid-a", "sid-b"}

\* the properties of a native request object that the guard may write
PropNames == {"session", "user", "account", "principal"}

\* module-level static options a module may be registered with
StaticChoices ==
    {EmptyLayer,
     [providers |-> "[cred]", secret |-> "s1"],
     [providers |-> "[cred]"],
     [providers |-> "[cred]", secret |-> "s1", property |-> "account", basePath |-> "/api/auth"]}

\* what an override of getAuthenticateOptions may return; EmptyLayer is undefined
DynChoices ==
    {EmptyLayer,
     [property |-> "principal", secret |-> "s2"],
     [providers |-> "[]"]}

\* the inputs of a canActivate call; a context that is not HTTP has no route
\* metadata or per-call options that the guard reads
CallInputs ==
    {[ctx |-> "rpc", isPublic |-> FALSE, dyn |-> EmptyLayer]}
    \cup {[ctx |-> "http", isPublic |-> p, dyn |-> d] : p \in BOOLEAN, d \in DynChoices}

NoResult == [threw |-> FALSE, error |-> NoError, value |-> Undefined]

\* a canActivate call: its inputs, what it computed and how it ended
NoCall ==
    [req |-> "", ctx |-> "none", isPublic |-> FALSE, dyn |-> EmptyLayer,
     cfg |-> EmptyLayer, handed |-> EmptyLayer, invocations |-> 0,
     outcome |-> Undefined, resolved |-> [session |-> Undefined, error |-> NoError],
     before |-> [p \in PropNames |-> Undefined],
     after |-> [p \in PropNames |-> Undefined],
     result |-> NoResult]

\* a native request object: its properties and, while a call is suspended on
\* it at the engine call (pc = "engine"), the locals of that call
NewRequest ==
    [pc |-> "idle", props |-> [p \in PropNames |-> Undefined],
     isPublic |-> FALSE, dyn |-> EmptyLayer, mergedOptions |-> EmptyLayer]

\* no raw session was handed to the projection, nothing was projected
NotGiven == [kind |-> "none"]

\* AuthMiddleware after construction: no adapter yet, no request in hand
NoMiddlewareCall ==
    [httpAdapter |-> "none", pc |-> "idle", next |-> "returns", config |-> EmptyLayer,
     result |-> NoResult,
     toHttpResponse |-> [state |-> "none", error |-> NoError], nextCalls |-> <<>>]

\* a native response on which nothing was written; its throwsAt-th write call
\* will throw (none when throwsAt is 0)
NewResponse == [calls |-> <<>>, state |-> "open", throwsAt |-> 0]

\* no request is passing the guards, and no guard is registered
NoPipeline ==
    [pc |-> "idle", guards |-> <<>>, at |-> 0, isPublic |-> FALSE, required |-> Undefined,
     props |-> [p \in PropNames |-> Undefined], trace |-> <<>>,
     invocations |-> 0, error |-> NoError, allowed |-> FALSE, authUser |-> Undefined,
     rolesRan |-> FALSE, seenRoles |-> <<>>, rolesResult |-> FALSE, status |-> 0]

\* no body is being relayed
NoStream == [kind |-> "none", read |-> 0, pending |-> <<>>, done |-> FALSE, error |-> NoError]

Init ==
    /\ adapterHost = "none"
    /\ httpAdapter = "none"
    /\ options \in StaticChoices
    /\ nodeEnv \in {"production", "development"}
    /\ reqs = [r \in Requests |-> NewRequest]
    /\ last = NoCall
    /\ started = 0
    /\ webIn = Undefined
    /\ webOut = Undefined
    /\ mw = NoMiddlewareCall
    /\ webResponse = Undefined
    /\ res = NewResponse
    /\ nodeStream = NoStream
    /\ coreSession = NotGiven
    /\ publicSession = NotGiven
    /\ pipeline = NoPipeline

\* app.init(): the native server is attached to the adapter host
AttachServer ==
    /\ adapterHost = "none"
    /\ adapterHost' \in Runtimes \ {"none"}
    /\ UNCHANGED <<httpAdapter, options, nodeEnv, reqs, last, started, webVars, outVars, sessionVars, rolesVars>>

\* faulty variant: the type of the execution context is not looked at
CanActivate_NoContextTest(r) ==
    /\ reqs[r].pc = "idle"
    /\ started < MaxCalls
    /\ started' = started + 1
    /\ \E in \in CallInputs :
        LET ctx == in.ctx
            pub == in.isPublic
            dyn == in.dyn
            call == [NoCall EXCEPT !.req = r, !.ctx = ctx,
                                   !.before = reqs[r].props, !.after = reqs[r].props]
            route == [call EXCEPT !.isPublic = pub]
            adapter == getOrCreateAdapter(httpAdapter, adapterHost)
            cfg == MergeOptions(nodeEnv, options, dyn)
            pre == getSessionPreconditions(cfg, nodeEnv)
        IN  IF adapter.threw
            THEN /\ last' = [route EXCEPT !.result = Thrown(adapter.error)]
                 /\ UNCHANGED <<httpAdapter, reqs>>
            ELSE IF pre.threw
            THEN LET se  == getSessionOrError(pre)
                     fin == HandleRoute(pub, reqs[r].props, cfg, nodeEnv, se)
                 IN  /\ last' = [route EXCEPT !.dyn = dyn, !.cfg = cfg, !.resolved = se,
                                              !.after = fin.props, !.result = fin.result]
                     /\ reqs' = [reqs EXCEPT ![r].props = fin.props]
                     /\ httpAdapter' = adapter.value.name
            ELSE /\ reqs' = [reqs EXCEPT ![r].pc = "engine", ![r].isPublic = pub,
                                         ![r].dyn = dyn, ![r].mergedOptions = cfg]
                 /\ httpAdapter' = adapter.value.name
                 /\ UNCHANGED last
    /\ UNCHANGED <<adapterHost, options, nodeEnv, webVars, outVars, sessionVars, rolesVars>>

\* canActivate on request object r, up to its suspension at the engine call, or
\* to its end when it ends before: the context type, the route metadata and the
\* per-call options are its inputs.  The suspension at
\* `await this.getAuthenticateOptions(context)` is not a step of its own: what
\* follows it reads only the adapter cache, which this call has just set and
\* nothing unsets, and the static options, which nothing writes.
CanActivate(r) ==
    /\ reqs[r].pc = "idle"
    /\ started < MaxCalls
    /\ started' = started + 1
    /\ \E in \in CallInputs :
        LET ctx == in.ctx
            pub == in.isPublic
            dyn == in.dyn
            call == [NoCall EXCEPT !.req = r, !.ctx = ctx,
                                   !.before = reqs[r].props, !.after = reqs[r].props]
            route == [call EXCEPT !.isPublic = pub]
            adapter == getOrCreateAdapter(httpAdapter, adapterHost)
            cfg == MergeOptions(nodeEnv, options, dyn)
            pre == getSessionPreconditions(cfg, nodeEnv)
        IN  IF ctx # "http"
            THEN /\ last' = [call EXCEPT !.result = Returned(True)]
                 /\ UNCHANGED <<httpAdapter, reqs>>
            ELSE IF adapter.threw
            THEN /\ last' = [route EXCEPT !.result = Thrown(adapter.error)]
                 /\ UNCHANGED <<httpAdapter, reqs>>
            ELSE IF pre.threw
            THEN LET se  == getSessionOrError(pre)
                     fin == HandleRoute(pub, reqs[r].props, cfg, nodeEnv, se)
                 IN  /\ last' = [route EXCEPT !.dyn = dyn, !.cfg = cfg, !.resolved = se,
                                              !.after = fin.props, !.result = fin.result]
                     /\ reqs' = [reqs EXCEPT ![r].props = fin.props]
                     /\ httpAdapter' = adapter.value.name
            ELSE /\ reqs' = [reqs EXCEPT ![r].pc = "engine", ![r].isPublic = pub,
                                         ![r].dyn = dyn, ![r].mergedOptions = cfg]
                 /\ httpAdapter' = adapter.value.name
                 /\ UNCHANGED last
    /\ UNCHANGED <<adapterHost, options, nodeEnv, webVars, outVars, sessionVars, rolesVars>>

\* faulty variant: the request object is kept in a field of the guard, so the
\* call that resumes attaches to the object of a request that is still suspended
EngineSettles_SharedRequest(r) ==
    /\ reqs[r].pc = "engine"
    /\ \E o \in EngineOutcomes(r) : \E q \in {x \in Requests : reqs[x].pc = "engine"} :
        LET cfg == reqs[r].mergedOptions
            se  == getSessionOrError(getSessionInterpret(o))
            fin == HandleRoute(reqs[r].isPublic, reqs[q].props, cfg, nodeEnv, se)
        IN  /\ reqs' = [x \in Requests |->
                          IF x = r /\ x = q THEN [NewRequest EXCEPT !.props = fin.props]
                          ELSE IF x = r THEN [NewRequest EXCEPT !.props = reqs[r].props]
                          ELSE IF x = q THEN [reqs[q] EXCEPT !.props = fin.props]
                          ELSE reqs[x]]
            /\ last' = [req |-> r, ctx |-> "http", isPublic |-> reqs[r].isPublic,
                        dyn |-> reqs[r].dyn, cfg |-> cfg, handed |-> cfg, invocations |-> 1,
                        outcome |-> o, resolved |-> se,
                        before |-> reqs[q].props, after |-> fin.props,
                        result |-> fin.result]
    /\ UNCHANGED <<adapterHost, httpAdapter, options, nodeEnv, started, webVars, outVars,
                   sessionVars, rolesVars>>

\* the engine call of request r settles; the rest of getSession and of the route handler run
EngineSettles(r) ==
    /\ reqs[r].pc = "engine"
    /\ \E o \in EngineOutcomes(r) :
        LET cfg == reqs[r].mergedOptions
            se  == getSessionOrError(getSessionInterpret(o))
            fin == HandleRoute(reqs[r].isPublic, reqs[r].props, cfg, nodeEnv, se)
        IN  /\ reqs' = [reqs EXCEPT ![r] = [NewRequest EXCEPT !.props = fin.props]]
            /\ last' = [req |-> r, ctx |-> "http", isPublic |-> reqs[r].isPublic,
                        dyn |-> reqs[r].dyn, cfg |-> cfg, handed |-> cfg, invocations |-> 1,
                        outcome |-> o, resolved |-> se,
                        before |-> reqs[r].props, after |-> fin.props,
                        result |-> fin.result]
    /\ UNCHANGED <<adapterHost, httpAdapter, options, nodeEnv, started, webVars, outVars, sessionVars, rolesVars>>

Next ==
    \/ AttachServer
    \/ \E r \in Requests : CanActivate(r)
    \/ \E r \in Requests : EngineSettles(r)

Spec == Init /\ [][Next]_vars

-----------------------------------------------------------------------------
(* Inbound translator: toWebRequest of utils/http-adapters.ts (the later,  *)
(* streaming variant of the file).  A JavaScript string is a sequence of   *)
(* characters; where only equality of a string matters a whole word is one *)
(* element of the sequence.                                                *)

MaxHeaderValues == 3

Str(s) == [kind |-> "string", s |-> s]

Arr(a) == [kind |-> "array", a |-> a]

LowerLetters ==
    <<"a", "b", "c", "d", "e", "f", "g", "h", "i", "j", "k", "l", "m",
      "n", "o", "p", "q", "r", "s", "t", "u", "v", "w", "x", "y", "z">>

UpperLetters ==
    <<"A", "B", "C", "D", "E", "F", "G", "H", "I", "J", "K", "L", "M",
      "N", "O", "P", "Q", "R", "S", "T", "U", "V", "W", "X", "Y", "Z">>

\* String.prototype.toUpperCase, character by character
UpperChar(c) ==
    IF \E i \in 1..Len(LowerLetters) : LowerLetters[i] = c
    THEN UpperLetters[CHOOSE i \in 1..Len(LowerLetters) : LowerLetters[i] = c]
    ELSE c

toUpperCase(s) == [i \in 1..Len(s) |-> UpperChar(s[i])]

\* the string s has the string sub as a substring
Contains(s, sub) ==
    \E i \in 1..(Len(s) - Len(sub) + 1) : SubSeq(s, i, i + Len(sub) - 1) = sub

\* /GET|HEAD/.test(s): the pattern is not anchored
MatchesGetOrHead(s) ==
    Contains(s, <<"G", "E", "T">>) \/ Contains(s, <<"H", "E", "A", "D">>)

\* faulty variant: the method is matched as it came, without toUpperCase
SkipsBody_CaseSensitive(method) == MatchesGetOrHead(method)

\* !/GET|HEAD/.test(method.toUpperCase()) is false: the body is not read
SkipsBody(method) == MatchesGetOrHead(toUpperCase(method))

\* Headers.append(name, value) on a multimap from names to value sequences
HeadersAppend(h, name, value) ==
    [n \in (DOMAIN h) \cup {name} |->
        IF n = name
        THEN (IF n \in DOMAIN h THEN Append(h[n], value) ELSE <<value>>)
        ELSE h[n]]

\* value.forEach((v) => v && headers.append(key, v))
RECURSIVE AppendEach(_, _, _)
AppendEach(h, name, values) ==
    IF values = <<>> THEN h
    ELSE AppendEach(IF Head(values) # <<>> THEN HeadersAppend(h, name, Head(values)) ELSE h,
                    name, Tail(values))

RECURSIVE AppendEach_Unfiltered(_, _, _)
AppendEach_Unfiltered(h, name, values) ==
    IF values = <<>> THEN h
    ELSE AppendEach_Unfiltered(HeadersAppend(h, name, Head(values)), name, Tail(values))

\* faulty variant: the elements of an array value are appended without the test for emptiness
AppendEntry_Unfiltered(h, name, value) ==
    IF value.kind = "array" THEN AppendEach_Unfiltered(h, name, value.a)
    ELSE IF value.kind = "string" /\ value.s # <<>> THEN HeadersAppend(h, name, value.s)
    ELSE h

\* the body of the forEach over Object.entries(rawHeaders)
AppendEntry(h, name, value) ==
    IF value.kind = "array" THEN AppendEach(h, name, value.a)
    ELSE IF value.kind = "string" /\ value.s # <<>> THEN HeadersAppend(h, name, value.s)
    ELSE h

\* Object.entries(rawHeaders).forEach(...) on the entries in their order
RECURSIVE CopyHeaders(_, _)
CopyHeaders(h, entries) ==
    IF entries = <<>> THEN h
    ELSE CopyHeaders(AppendEntry(h, Head(entries).name, Head(entries).value), Tail(entries))

NoHeaders == [n \in {} |-> <<>>]

\* headers.get('content-type')?.includes(needle): get joins the values of the
\* header with ", ", so the needle is in the result when it is in one of them
ContentTypeIncludes(h, needle) ==
    /\ "content-type" \in DOMAIN h
    /\ \E i \in 1..Len(h["content-type"]) : Contains(h["content-type"][i], needle)

-----------------------------------------------------------------------------
(* Body encoders.  A parsed body object is a sequence of entries           *)
(* [k, isArray, v]: a key with its values (one value when not an array);   *)
(* a value is a string or a number.  A serialised body is a sequence of    *)
(* tokens: punctuation characters, keys and the texts of values.           *)

JsString(x) == [t |-> "string", x |-> x]

JsNumber(x) == [t |-> "number", x |-> x]

RECURSIVE Join(_, _)
Join(parts, sep) ==
    IF parts = <<>> THEN <<>>
    ELSE IF Len(parts) = 1 THEN Head(parts)
    ELSE Head(parts) \o sep \o Join(Tail(parts), sep)

\* faulty variant: array elements are written under bracketed indices (arrayFormat 'indices')
QsEntryPairs_Indexed(e) ==
    [i \in 1..Len(e.v) |->
        IF e.isArray THEN <<e.k, "[", ToString(i - 1), "]", "=", e.v[i].x>>
        ELSE <<e.k, "=", e.v[i].x>>]

\* qs: the key=value pairs of one entry under arrayFormat 'repeat'; a value is
\* written as its text, whatever its type
QsEntryPairs(e) == [i \in 1..Len(e.v) |-> <<e.k, "=", e.v[i].x>>]

RECURSIVE QsPairs(_)
QsPairs(entries) ==
    IF entries = <<>> THEN <<>>
    ELSE QsEntryPairs(Head(entries)) \o QsPairs(Tail(entries))

\* qs.stringify(value, { arrayFormat: 'repeat' }): '' for what is not an object
qsStringify(value) ==
    IF value.kind = "object" THEN Join(QsPairs(value.entries), <<"&">>)
    ELSE IF value.kind = "buffer"
    THEN Join([i \in 1..Len(value.bytes) |-> <<ToString(i - 1), "=", value.bytes[i]>>], <<"&">>)
    ELSE <<>>

\* JSON.stringify of a scalar: a string is quoted (the quote is the token "'"), a number is not
JsonValue(v) == IF v.t = "string" THEN <<"'", v.x, "'">> ELSE <<v.x>>

JsonArray(vs) == <<"[">> \o Join([i \in 1..Len(vs) |-> JsonValue(vs[i])], <<",">>) \o <<"]">>

JsonEntry(e) ==
    <<"'", e.k, "'", ":">> \o (IF e.isArray THEN JsonArray(e.v) ELSE JsonValue(e.v[1]))

\* JSON.stringify(value)
JSONstringify(value) ==
    IF value.kind = "object"
    THEN <<"{">> \o Join([i \in 1..Len(value.entries) |-> JsonEntry(value.entries[i])], <<",">>)
              \o <<"}">>
    ELSE IF value.kind = "string" THEN <<"'">> \o value.s \o <<"'">>
    ELSE IF value.kind = "buffer"
    THEN <<"{", "'", "type", "'", ":", "'", "Buffer", "'", ",", "'", "data", "'", ":">>
            \o JsonArray([i \in 1..Len(value.bytes) |-> JsNumber(value.bytes[i])]) \o <<"}">>
    ELSE <<"number">>

FormType == <<"application/x-www-form-urlencoded">>

JsonType == <<"application/json">>

\* the chain of tests that turns bodyData into rawBody
EncodeBody(h, bodyData) ==
    IF IsNullish(bodyData) THEN Undefined
    ELSE IF ContentTypeIncludes(h, FormType) THEN Str(qsStringify(bodyData))
    ELSE IF ContentTypeIncludes(h, JsonType) THEN Str(JSONstringify(bodyData))
    ELSE IF bodyData.kind = "buffer" THEN bodyData
    ELSE IF bodyData.kind = "string" THEN bodyData
    ELSE IF bodyData.kind = "object" THEN Str(qsStringify(bodyData))
    ELSE Undefined

\* rawBody && Buffer.isBuffer(rawBody) ? new Uint8Array(rawBody) : rawBody
ToBodyInit(rawBody) ==
    IF rawBody.kind = "buffer" THEN [kind |-> "uint8array", bytes |-> rawBody.bytes]
    ELSE rawBody

\* new Request(url, { method, headers, body }) of the platform: a GET or HEAD
\* request (the constructor matches these in any letter case) with a body is a TypeError
RequestCtor(url, method, h, body) ==
    IF toUpperCase(method) \in {<<"G", "E", "T">>, <<"H", "E", "A", "D">>} /\ body.kind # "undefined"
    THEN Thrown(JsError("TypeError", "Request with GET/HEAD method cannot have body"))
    ELSE Returned([kind |-> "request", url |-> url, method |-> method, headers |-> h,
                   body |-> body])

\* toWebRequest(request, adapter) on what the adapter's accessors give for the request
toWebRequest(n) ==
    LET url     == <<n.protocol, "://", n.host, n.url>>
        headers == CopyHeaders(NoHeaders, n.headers)
        rawBody == IF SkipsBody(n.method) THEN Undefined ELSE EncodeBody(headers, n.body)
    IN  RequestCtor(url, n.method, headers, ToBodyInit(rawBody))

-----------------------------------------------------------------------------
(* The inbound translator at work: native requests arrive and are translated *)

Word(w) == <<w>>

Methods ==
    {<<"G", "E", "T">>, <<"g", "e", "t">>, <<"G", "e", "t">>,
     <<"H", "E", "A", "D">>, <<"h", "e", "a", "d">>, <<"h", "E", "a", "D">>,
     <<"P", "O", "S", "T">>, <<"p", "o", "s", "t">>, <<"P", "U", "T">>,
     <<"P", "A", "T", "C", "H">>, <<"D", "E", "L", "E", "T", "E">>}

HeaderStrings == {<<>>, Word("first"), Word("second")}

SeqsUpTo(S, n) == UNION {[1..k -> S] : k \in 0..n}

HeaderValues ==
    {Undefined} \cup {Str(v) : v \in HeaderStrings}
    \cup {Arr(a) : a \in SeqsUpTo(HeaderStrings, MaxHeaderValues)}

ContentTypeValues ==
    {Undefined, Str(<<>>), Str(JsonType), Str(JsonType \o Word("; charset=utf-8")),
     Str(FormType), Str(Word("text/plain")), Arr(<<Word("text/plain"), JsonType>>)}

\* the native header collections: an object whose keys are lower-case header names
HeaderCollections ==
    {<<>>}
    \cup {<<[name |-> "content-type", value |-> c]>> : c \in ContentTypeValues}
    \cup {<<[name |-> "x-array", value |-> x]>> : x \in HeaderValues}
    \cup {<<[name |-> "content-type", value |-> c], [name |-> "x-array", value |-> x]>> :
            c \in ContentTypeValues, x \in HeaderValues}

Bodies ==
    {Undefined, Null, Str(<<>>), Str(Word("plain text body")),
     [kind |-> "buffer", bytes |-> <<"98", "117">>],
     [kind |-> "number"],
     [kind |-> "object",
      entries |-> <<[k |-> "alpha", isArray |-> FALSE, v |-> <<JsString("one")>>],
                    [k |-> "beta", isArray |-> FALSE, v |-> <<JsString("two")>>]>>],
     [kind |-> "object",
      entries |-> <<[k |-> "foo", isArray |-> FALSE, v |-> <<JsString("bar")>>],
                    [k |-> "baz", isArray |-> FALSE, v |-> <<JsNumber("2")>>]>>],
     [kind |-> "object",
      entries |-> <<[k |-> "a", isArray |-> TRUE, v |-> <<JsNumber("1"), JsNumber("2")>>]>>]}

\* what the adapter's accessors give for a native request
NativeRequests ==
    [kind : {"native"}, protocol : {"http", "https"}, host : {"example.com"}, url : {"/test"},
     method : Methods, headers : HeaderCollections, body : Bodies]

InitWeb ==
    /\ adapterHost = "none"
    /\ httpAdapter = "none"
    /\ options = EmptyLayer
    /\ nodeEnv = "development"
    /\ reqs = [r \in Requests |-> NewRequest]
    /\ last = NoCall
    /\ started = 0
    /\ webIn = Undefined
    /\ webOut = Undefined
    /\ mw = NoMiddlewareCall
    /\ webResponse = Undefined
    /\ res = NewResponse
    /\ nodeStream = NoStream
    /\ coreSession = NotGiven
    /\ publicSession = NotGiven
    /\ pipeline = NoPipeline

\* a native request reaches the translator
Receive ==
    /\ webIn = Undefined
    /\ webIn' \in NativeRequests
    /\ webOut' = Undefined
    /\ UNCHANGED <<guardVars, outVars, sessionVars, rolesVars>>

\* toWebRequest runs on it
Translate ==
    /\ webIn.kind = "native"
    /\ webOut = Undefined
    /\ webOut' = toWebRequest(webIn)
    /\ UNCHANGED <<webIn, guardVars, outVars, sessionVars, rolesVars>>

\* the canonical request is handed on and dropped
Discard ==
    /\ webIn.kind = "native"
    /\ webOut # Undefined
    /\ webIn' = Undefined
    /\ webOut' = Undefined
    /\ UNCHANGED <<guardVars, outVars, sessionVars, rolesVars>>

NextWeb == Receive \/ Translate \/ Discard

SpecWeb == InitWeb /\ [][NextWeb]_vars

-----------------------------------------------------------------------------
(* Outbound translator: toHttpResponse of utils/http-adapters.ts (the      *)
(* streaming variant), and AuthMiddleware.use, which runs it.              *)

MaxCookies == 2

MaxChunks == 2

\* String.prototype.toLowerCase on the header names that occur
LowerName(n) ==
    IF n = "Set-Cookie" THEN "set-cookie"
    ELSE IF n = "Location" THEN "location"
    ELSE IF n = "Content-Type" THEN "content-type"
    ELSE n

\* the header names that occur, in the sorted order in which Headers iterates
SortedNames == <<"content-type", "location", "set-cookie">>

\* the values that were appended to a Headers object under name n, in their order
RECURSIVE ValuesOf(_, _)
ValuesOf(list, n) ==
    IF list = <<>> THEN <<>>
    ELSE (IF LowerName(Head(list).name) = n THEN <<Head(list).value>> ELSE <<>>)
            \o ValuesOf(Tail(list), n)

\* what Headers.forEach hands to its callback for name n: the values of
\* set-cookie one by one, the values of another name combined with ", "
IterationOf(list, n) ==
    LET vs == ValuesOf(list, n)
    IN  IF vs = <<>> THEN <<>>
        ELSE IF n = "set-cookie" THEN [i \in 1..Len(vs) |-> [key |-> n, value |-> vs[i]]]
        ELSE <<[key |-> n, value |-> Join(vs, <<", ">>)]>>

\* webResponse.headers.forEach: the (value, key) pairs in iteration order
HeadersForEach(list) ==
    IterationOf(list, SortedNames[1]) \o IterationOf(list, SortedNames[2])
        \o IterationOf(list, SortedNames[3])

\* groupedHeaders[key]
Lookup(obj, key) ==
    IF \E i \in 1..Len(obj) : obj[i].key = key
    THEN obj[CHOOSE i \in 1..Len(obj) : obj[i].key = key].value
    ELSE Undefined

\* groupedHeaders[key] = value: a new key is added after the keys already there
ObjectSet(obj, key, value) ==
    IF \E i \in 1..Len(obj) : obj[i].key = key
    THEN [i \in 1..Len(obj) |-> IF obj[i].key = key THEN [key |-> key, value |-> value] ELSE obj[i]]
    ELSE Append(obj, [key |-> key, value |-> value])

\* faulty variant: a later set-cookie value replaces the ones before it
GroupStep_Overwrite(grouped, key, value) ==
    IF LowerName(key) = "set-cookie" THEN ObjectSet(grouped, LowerName(key), Arr(<<value>>))
    ELSE ObjectSet(grouped, key, Str(value))

\* the callback of webResponse.headers.forEach
GroupStep(grouped, key, value) ==
    LET lowerKey == LowerName(key)
        existing == Lookup(grouped, lowerKey)
    IN  IF lowerKey = "set-cookie"
        THEN IF existing.kind = "array"
             THEN ObjectSet(grouped, lowerKey, Arr(Append(existing.a, value)))
             ELSE IF existing.kind = "string" /\ existing.s # <<>>
             THEN ObjectSet(grouped, lowerKey, Arr(<<existing.s, value>>))
             ELSE ObjectSet(grouped, lowerKey, Arr(<<value>>))
        ELSE ObjectSet(grouped, key, Str(value))

RECURSIVE GroupHeaders(_, _)
GroupHeaders(grouped, iteration) ==
    IF iteration = <<>> THEN grouped
    ELSE GroupHeaders(GroupStep(grouped, Head(iteration).key, Head(iteration).value),
                      Tail(iteration))

\* one call of a write method of the adapter on the native response
Call(op, key, value) == [op |-> op, key |-> key, value |-> value]

\* the write calls of toHttpResponse on response r, in program order
ResponseWrites_StatusFirst(r) ==
    <<Call("setStatus", "", [kind |-> "status", code |-> r.status])>>
    \o [i \in 1..Len(GroupHeaders(<<>>, HeadersForEach(r.headers))) |->
          Call("setHeader", GroupHeaders(<<>>, HeadersForEach(r.headers))[i].key,
               GroupHeaders(<<>>, HeadersForEach(r.headers))[i].value)]
    \o <<Call("send", "", IF r.body.kind = "null" THEN Str(<<>>) ELSE [kind |-> "stream"])>>

ResponseWrites(r) ==
    [i \in 1..Len(GroupHeaders(<<>>, HeadersForEach(r.headers))) |->
          Call("setHeader", GroupHeaders(<<>>, HeadersForEach(r.headers))[i].key,
               GroupHeaders(<<>>, HeadersForEach(r.headers))[i].value)]
    \o <<Call("setStatus", "", [kind |-> "status", code |-> r.status])>>
    \o <<Call("send", "", IF r.body.kind = "null" THEN Str(<<>>) ELSE [kind |-> "stream"])>>

\* what a write method of the native response throws when it fails
WriteError == JsError("Error", "Cannot set headers after they are sent to the client")

\* faulty variant: a failing write is skipped and the writes after it are made
toHttpResponse_SwallowsWriteError(r, failAt) ==
    LET w == ResponseWrites(r)
    IN  [calls  |-> IF failAt \in 1..Len(w)
                    THEN SubSeq(w, 1, failAt - 1) \o SubSeq(w, failAt + 1, Len(w))
                    ELSE w,
         result |-> [state |-> "resolved", error |-> NoError]]

\* toHttpResponse up to the return of adapter.send, on a native response whose
\* failAt-th write call throws (none throws when failAt is 0): the calls that
\* were made, and how the promise settles
toHttpResponse(r, failAt) ==
    LET w == ResponseWrites(r)
    IN  IF failAt \in 1..Len(w)
        THEN [calls  |-> SubSeq(w, 1, failAt - 1),
              result |-> [state |-> "rejected", error |-> WriteError]]
        ELSE [calls  |-> w,
              result |-> [state |-> "resolved", error |-> NoError]]

-----------------------------------------------------------------------------
(* The middleware at work *)

\* the i-th cookie of a response; a cookie may contain a comma
Cookie(i) == <<"sid", ToString(i), "=", "v, w">>

SetCookies(n) == [i \in 1..n |-> [name |-> "Set-Cookie", value |-> Cookie(i)]]

LocationHeader == [name |-> "Location", value |-> Word("/signin")]

JsonHeader == [name |-> "Content-Type", value |-> JsonType]

\* the header lists of engine responses: n cookies alone, after a Location,
\* before a Content-Type, and around a Location
ResponseHeaderLists ==
    UNION {{SetCookies(n),
            <<LocationHeader>> \o SetCookies(n),
            SetCookies(n) \o <<JsonHeader>>} :
           n \in 0..MaxCookies}
    \cup {<<SetCookies(n)[1], LocationHeader>> \o Tail(SetCookies(n)) : n \in 1..MaxCookies}

\* the chunks of a body, as byte sequences
ChunkValues == {<<104, 105>>, <<33>>}

\* the body streams: the chunks the source delivers and, when reading fails,
\* the number of chunks delivered before the failure
StreamBodies ==
    UNION {{[kind |-> "stream", chunks |-> c, fails |-> FALSE, failAfter |-> Len(c)]}
            \cup {[kind |-> "stream", chunks |-> c, fails |-> TRUE, failAfter |-> f] :
                    f \in 0..Len(c)} :
           c \in SeqsUpTo(ChunkValues, MaxChunks)}

\* the responses of the engine: a redirect, a session payload, a 400
EngineResponses ==
    [kind : {"response"}, status : {200, 302, 400}, headers : ResponseHeaderLists,
     body : {[kind |-> "null"]} \cup StreamBodies]

\* what reader.read() rejects with when the body stream fails
StreamError == JsError("Error", "stream failure")

\* the requests the middleware is called with
MiddlewareRequests ==
    {[kind |-> "native", protocol |-> "https", host |-> "example.com", url |-> "/test",
      method |-> <<"G", "E", "T">>, headers |-> <<>>, body |-> Undefined],
     [kind |-> "native", protocol |-> "https", host |-> "example.com", url |-> "/test",
      method |-> <<"P", "O", "S", "T">>,
      headers |-> <<[name |-> "content-type", value |-> Str(FormType)]>>,
      body |-> [kind |-> "object",
                entries |-> <<[k |-> "alpha", isArray |-> FALSE, v |-> <<JsString("one")>>]>>]]}

\* what the callback next does when it is called: it returns, or it throws
\* what a downstream handler that it runs synchronously threw
NextBehaviours == {"returns", "throws"}

DownstreamError == JsError("Error", "downstream failure")

\* next(error) in the catch block of use: when next throws, use rejects
CallNextWithError(m, error) ==
    [m EXCEPT !.nextCalls = Append(@, error),
              !.result = IF m.next = "throws" THEN Thrown(DownstreamError) ELSE @]

\* next() as the last statement of the try block of use: what it throws is
\* caught by the catch block, which calls next(error)
CallNext(m) ==
    IF m.next = "throws"
    THEN CallNextWithError([m EXCEPT !.nextCalls = Append(@, NoError)], DownstreamError)
    ELSE [m EXCEPT !.nextCalls = Append(@, NoError)]

InitOut ==
    /\ adapterHost = "none"
    /\ httpAdapter = "none"
    /\ options = EmptyLayer
    /\ nodeEnv = "development"
    /\ reqs = [r \in Requests |-> NewRequest]
    /\ last = NoCall
    /\ started = 0
    /\ webIn = Undefined
    /\ webOut = Undefined
    /\ mw = NoMiddlewareCall
    /\ webResponse = Undefined
    /\ res = NewResponse
    /\ nodeStream = NoStream
    /\ coreSession = NotGiven
    /\ publicSession = NotGiven
    /\ pipeline = NoPipeline

\* AuthMiddleware.use up to its suspension at `await Auth(webRequest, config)`,
\* or to its end when it ends before
Use ==
    /\ mw.pc = "idle"
    /\ \E req \in MiddlewareRequests, next \in NextBehaviours :
        LET created == IF mw.httpAdapter # "none"
                       THEN Returned([kind |-> "adapter", name |-> mw.httpAdapter])
                       ELSE AdapterFactoryCreate(adapterHost)
            web == toWebRequest(req)
        IN  IF created.threw
            THEN /\ mw' = [mw EXCEPT !.pc = "returned", !.result = Thrown(created.error)]
                 /\ UNCHANGED <<webIn, webOut>>
            ELSE /\ webIn' = req
                 /\ webOut' = web
                 /\ IF web.threw
                    THEN mw' = CallNextWithError(
                                 [mw EXCEPT !.httpAdapter = created.value.name,
                                            !.pc = "returned", !.next = next,
                                            !.config = MiddlewareConfig(options)],
                                 web.error)
                    ELSE mw' = [mw EXCEPT !.httpAdapter = created.value.name, !.pc = "engine",
                                          !.next = next, !.config = MiddlewareConfig(options)]
    /\ UNCHANGED <<guardVars, webResponse, res, nodeStream, sessionVars, rolesVars>>

\* the engine call of the middleware settles and use runs to its end: when the
\* engine answered, toHttpResponse writes the answer (the failAt-th write call
\* of the native response throws, none when failAt is 0), and next is called
EngineAnswers ==
    /\ mw.pc = "engine"
    /\ \/ \E e \in EngineErrors :
            /\ mw' = CallNextWithError([mw EXCEPT !.pc = "returned"], e)
            /\ UNCHANGED <<webResponse, res, nodeStream>>
       \/ \E r \in EngineResponses : \E failAt \in 0..Len(ResponseWrites(r)) :
            LET t == toHttpResponse(r, failAt)
                sent == t.result.state = "resolved"
            IN  /\ webResponse' = r
                /\ res' = [calls |-> t.calls,
                           state |-> IF sent /\ r.body.kind = "null" THEN "ended" ELSE "open",
                           throwsAt |-> failAt]
                /\ nodeStream' = IF sent /\ r.body.kind = "stream"
                                 THEN [NoStream EXCEPT !.kind = "stream"]
                                 ELSE NoStream
                /\ mw' = LET m == [mw EXCEPT !.pc = "returned", !.toHttpResponse = t.result]
                          IN  IF sent THEN CallNext(m) ELSE CallNextWithError(m, t.result.error)
    /\ UNCHANGED <<guardVars, webVars, sessionVars, rolesVars>>

\* the generator behind nodeStream reads once from the body of webResponse:
\* a chunk, which it yields as a Buffer, the end of the body, or a failure.
\* Readable.from keeps one yielded chunk at most until it is consumed.
StreamRead ==
    /\ nodeStream.kind = "stream"
    /\ nodeStream.error = NoError
    /\ ~nodeStream.done
    /\ nodeStream.pending = <<>>
    /\ LET body == webResponse.body
       IN  IF body.fails /\ nodeStream.read = body.failAfter
           THEN /\ nodeStream' = [nodeStream EXCEPT !.error = StreamError]
                /\ \E st \in {"open", "aborted"} : res' = [res EXCEPT !.state = st]
           ELSE IF nodeStream.read = Len(body.chunks)
           THEN /\ nodeStream' = [nodeStream EXCEPT !.done = TRUE]
                /\ UNCHANGED res
           ELSE /\ nodeStream' = [nodeStream EXCEPT
                                    !.read = @ + 1,
                                    !.pending = <<[kind |-> "buffer",
                                                   bytes |-> body.chunks[nodeStream.read + 1]]>>]
                /\ UNCHANGED res
    /\ UNCHANGED <<guardVars, webVars, mw, webResponse, sessionVars, rolesVars>>

\* the chunk held by nodeStream is written to the native response
StreamWrite ==
    /\ nodeStream.kind = "stream"
    /\ nodeStream.pending # <<>>
    /\ res' = [res EXCEPT !.calls = Append(@, Call("write", "", Head(nodeStream.pending)))]
    /\ nodeStream' = [nodeStream EXCEPT !.pending = <<>>]
    /\ UNCHANGED <<guardVars, webVars, mw, webResponse, sessionVars, rolesVars>>

\* faulty variant: the native response is finalized as soon as nothing is held
StreamEnd_Early ==
    /\ nodeStream.kind = "stream"
    /\ nodeStream.pending = <<>>
    /\ res.state = "open"
    /\ res' = [res EXCEPT !.calls = Append(@, Call("end", "", Undefined)), !.state = "ended"]
    /\ UNCHANGED <<guardVars, webVars, mw, webResponse, nodeStream, sessionVars, rolesVars>>

\* nodeStream has ended: the native response is finalized
StreamEnd ==
    /\ nodeStream.kind = "stream"
    /\ nodeStream.done
    /\ nodeStream.pending = <<>>
    /\ res.state = "open"
    /\ res' = [res EXCEPT !.calls = Append(@, Call("end", "", Undefined)), !.state = "ended"]
    /\ UNCHANGED <<guardVars, webVars, mw, webResponse, nodeStream, sessionVars, rolesVars>>

\* faulty variant: the adapter of the middleware is dropped with the request
Finish_ForgetsAdapter ==
    /\ mw.pc = "returned"
    /\ \/ nodeStream.kind = "none"
       \/ res.state \in {"ended", "aborted"}
       \/ nodeStream.error # NoError
    /\ mw' = NoMiddlewareCall
    /\ webIn' = Undefined
    /\ webOut' = Undefined
    /\ webResponse' = Undefined
    /\ res' = NewResponse
    /\ nodeStream' = NoStream
    /\ UNCHANGED <<guardVars, sessionVars, rolesVars>>

\* the request is over; the middleware keeps its adapter for the next one
Finish ==
    /\ mw.pc = "returned"
    /\ \/ nodeStream.kind = "none"
       \/ res.state \in {"ended", "aborted"}
       \/ nodeStream.error # NoError
    /\ mw' = [NoMiddlewareCall EXCEPT !.httpAdapter = mw.httpAdapter]
    /\ webIn' = Undefined
    /\ webOut' = Undefined
    /\ webResponse' = Undefined
    /\ res' = NewResponse
    /\ nodeStream' = NoStream
    /\ UNCHANGED <<guardVars, sessionVars, rolesVars>>

NextOut ==
    \/ AttachServer
    \/ Use
    \/ EngineAnswers
    \/ StreamRead
    \/ StreamWrite
    \/ StreamEnd
    \/ Finish

SpecOut == InitOut /\ [][NextOut]_vars

-----------------------------------------------------------------------------
(* Session projection: AuthSession of auth.session.ts.  An object is its   *)
(* own properties: a function from their keys to property descriptors.     *)

DataProp(v, e) == [kind |-> "data", value |-> v, enumerable |-> e]

\* a property defined by a getter; the getter stands for what it returns
AccessorProp(g, e) == [kind |-> "accessor", get |-> g, enumerable |-> e]

JsObject(props) == [kind |-> "object", props |-> props]

NoProps == [k \in {} |-> DataProp(Undefined, TRUE)]

\* a falsy value that is not null or undefined ('' or 0)
FalsyScalar == [kind |-> "falsy"]

\* obj[key], or obj?.[key] when obj is null
Get(obj, key) ==
    IF obj.kind # "object" THEN Undefined
    ELSE IF key \notin DOMAIN obj.props THEN Undefined
    ELSE IF obj.props[key].kind = "accessor" THEN obj.props[key].get
    ELSE obj.props[key].value

\* target.key = value on a plain object
SetProp(props, key, value) ==
    [k \in (DOMAIN props) \cup {key} |-> IF k = key THEN DataProp(value, TRUE) ELSE props[k]]

\* faulty variant: only enumerable properties are copied, by value (as a spread would)
copyExtraProps_ByValue(source, target, exclude) ==
    LET keys == {k \in (DOMAIN source) \ exclude : source[k].enumerable}
    IN  [k \in (DOMAIN target) \cup keys |->
            IF k \in keys THEN DataProp(Get(JsObject(source), k), TRUE) ELSE target[k]]

\* copyExtraProps(source, target, exclude): every own property of source whose
\* key is not excluded is defined on target with the descriptor it has on source
copyExtraProps(source, target, exclude) ==
    [k \in (DOMAIN target) \cup ((DOMAIN source) \ exclude) |->
        IF k \in (DOMAIN source) \ exclude THEN source[k] ELSE target[k]]

BaseUserFields == {"name", "email", "image"}

\* the user part of the constructor: mergedUser, or null
MergedUser(srcUser) ==
    IF srcUser.kind # "object" THEN Null
    ELSE JsObject(copyExtraProps(
            srcUser.props,
            [k \in BaseUserFields \cap DOMAIN srcUser.props |-> DataProp(Get(srcUser, k), TRUE)],
            BaseUserFields))

\* new AuthSession(src): the own properties of the instance
AuthSessionCtor(src) ==
    LET srcAsRec    == toRecord(src)
        srcUser     == toRecord(Get(srcAsRec, "user"))
        withUser    == SetProp(NoProps, "user", MergedUser(srcUser))
        withExpires == IF Get(srcAsRec, "expires").kind = "string"
                       THEN SetProp(withUser, "expires", Get(srcAsRec, "expires"))
                       ELSE withUser
    IN  JsObject(IF srcAsRec.kind = "object"
                 THEN copyExtraProps(srcAsRec.props, withExpires, {"user", "expires"})
                 ELSE withExpires)

\* faulty variant: a session without a user object is projected to null
fromCore_NullWithoutUser(core) ==
    IF core.kind \in {"undefined", "null", "falsy"} THEN Null
    ELSE IF toRecord(Get(toRecord(core), "user")).kind # "object" THEN Null
    ELSE AuthSessionCtor(core)

\* AuthSession.fromCore(core): core ? new AuthSession(core) : null
fromCore(core) ==
    IF core.kind \in {"undefined", "null", "falsy"} THEN Null ELSE AuthSessionCtor(core)

\* AuthSession.prototype.toJSON
toJSON(this) ==
    LET withUser    == IF Get(this, "user").kind # "undefined"
                       THEN SetProp(NoProps, "user", Get(this, "user"))
                       ELSE NoProps
        withExpires == IF Get(this, "expires").kind # "undefined"
                       THEN SetProp(withUser, "expires", Get(this, "expires"))
                       ELSE withUser
    IN  JsObject(copyExtraProps(this.props, withExpires, {"user", "expires"}))

\* AuthSessionClass.fromCore(core)?.toJSON() ?? null
ProjectSession(core) ==
    IF fromCore(core).kind = "null" THEN Null ELSE toJSON(fromCore(core))

\* a key that an object may not have
Absent == [kind |-> "absent"]

\* the objects whose keys are those of choices: for each key one of its
\* descriptors, or none when Absent is chosen
ObjectsOf(choices) ==
    LET all == UNION {choices[k] : k \in DOMAIN choices}
    IN  {JsObject([k \in {j \in DOMAIN f : f[j] # Absent} |-> f[k]]) :
            f \in {g \in [DOMAIN choices -> all] : \A k \in DOMAIN choices : g[k] \in choices[k]}}

\* the descriptors of an extension field: a plain one, one that is not
\* enumerable, one defined by a getter
ExtensionProps(v, g) == {Absent, DataProp(v, TRUE), DataProp(v, FALSE), AccessorProp(g, TRUE)}

RawUsers ==
    ObjectsOf([name  |-> {Absent, DataProp(Str(Word("Ada")), TRUE)},
               email |-> {Absent, DataProp(Str(Word("ada@example.com")), TRUE)},
               roles |-> ExtensionProps(Arr(<<Word("admin")>>), Str(Word("computed roles")))])

\* the raw sessions of the engine, and what else may be handed to fromCore
RawSessions ==
    {Undefined, Null, FalsyScalar, Scalar}
    \cup UNION {ObjectsOf([user    |-> {Absent, DataProp(u, TRUE)},
                           expires |-> {Absent, DataProp(Str(Word("2030-01-01T00:00:00Z")), TRUE),
                                        DataProp([kind |-> "number"], TRUE)},
                           idToken |-> ExtensionProps(Str(Word("token")), Str(Word("computed token")))]) :
                u \in RawUsers \cup {Null, Scalar}}

InitSession ==
    /\ adapterHost = "none"
    /\ httpAdapter = "none"
    /\ options = EmptyLayer
    /\ nodeEnv = "development"
    /\ reqs = [r \in Requests |-> NewRequest]
    /\ last = NoCall
    /\ started = 0
    /\ webIn = Undefined
    /\ webOut = Undefined
    /\ mw = NoMiddlewareCall
    /\ webResponse = Undefined
    /\ res = NewResponse
    /\ nodeStream = NoStream
    /\ coreSession = NotGiven
    /\ publicSession = NotGiven
    /\ pipeline = NoPipeline

\* a raw session reaches the projection
Obtain ==
    /\ coreSession = NotGiven
    /\ coreSession' \in RawSessions
    /\ publicSession' = NotGiven
    /\ UNCHANGED <<guardVars, webVars, outVars, rolesVars>>

\* the projection runs on it
Project ==
    /\ coreSession # NotGiven
    /\ publicSession = NotGiven
    /\ publicSession' = ProjectSession(coreSession)
    /\ UNCHANGED <<coreSession, guardVars, webVars, outVars, rolesVars>>

\* the projected session was used and is dropped
Release ==
    /\ publicSession # NotGiven
    /\ coreSession' = NotGiven
    /\ publicSession' = NotGiven
    /\ UNCHANGED <<guardVars, webVars, outVars, rolesVars>>

NextSession == Obtain \/ Project \/ Release

SpecSession == InitSession /\ [][NextSession]_vars

-----------------------------------------------------------------------------
(* The global guards: createGuardProviders of auth.module.ts registers the *)
(* authentication guard and the roles guard of roles.guard.ts as APP_GUARD  *)
(* providers, and the framework asks them in the order of registration; it  *)
(* answers 403 when a guard returns false and with the status of the        *)
(* exception when a guard throws.                                           *)

False == [kind |-> "false"]

\* faulty variant: the roles guard is registered before the authentication guard
createGuardProviders_RolesFirst(config) ==
    (IF config.rolesGuard # False THEN <<"RolesGuard">> ELSE <<>>)
    \o (IF config.globalGuard # False THEN <<"AuthGuard">> ELSE <<>>)

\* createGuardProviders(config): the guards in the order they are pushed
createGuardProviders(config) ==
    (IF config.globalGuard # False THEN <<"AuthGuard">> ELSE <<>>)
    \o (IF config.rolesGuard # False THEN <<"RolesGuard">> ELSE <<>>)

\* a user object that carries a role list; roles is Undefined when the key is absent
RoleUser(id, roles) == [kind |-> "object", name |-> id, roles |-> roles]

\* request.user?.roles ?? []
userRoles(props) ==
    LET user == props["user"]
    IN  IF IsNullish(user) THEN <<>>
        ELSE IF user.kind # "object" THEN <<>>
        ELSE IF IsNullish(user.roles) THEN <<>>
        ELSE user.roles.a

\* faulty variant: every required role is asked of the user
RolesGuardCanActivate_Every(requiredRoles, props) ==
    IF IsNullish(requiredRoles) THEN TRUE
    ELSE IF Len(requiredRoles.a) = 0 THEN TRUE
    ELSE \A i \in 1..Len(requiredRoles.a) :
            \E j \in 1..Len(userRoles(props)) : userRoles(props)[j] = requiredRoles.a[i]

\* RolesGuard.canActivate: requiredRoles is the metadata of the route,
\* Undefined when the route has none
RolesGuardCanActivate(requiredRoles, props) ==
    IF IsNullish(requiredRoles) THEN TRUE
    ELSE IF Len(requiredRoles.a) = 0 THEN TRUE
    ELSE \E i \in 1..Len(requiredRoles.a) :
            \E j \in 1..Len(userRoles(props)) : userRoles(props)[j] = requiredRoles.a[i]

\* the status the framework answers with when a guard throws e
StatusOfError(e) == IF e.type = "UnauthorizedException" THEN 401 ELSE 500

\* what a module may be registered with as its second argument
ModuleConfigs ==
    {[globalGuard |-> g, rolesGuard |-> r] : g \in {Undefined, True, False},
                                             r \in {Undefined, True, False}}

\* what @RequireRoles(...) leaves on a route; Undefined is a route without the decorator
RequiredChoices ==
    {Undefined, Arr(<<>>), Arr(<<"admin">>), Arr(<<"admin", "moderator">>)}

\* the role lists the users of the application carry
UserRoleChoices ==
    {Undefined, Null, Arr(<<>>), Arr(<<"user">>), Arr(<<"user", "moderator">>), Arr(<<"admin">>)}

\* what the engine answers to the session request of the request's cookie
RoleOutcomes(c) ==
    {[kind |-> "throw", error |-> JsError("Error", "engine failure"), ok |-> FALSE,
      body |-> Undefined],
     [kind |-> "response", error |-> NoError, ok |-> FALSE, body |-> Undefined],
     [kind |-> "response", error |-> NoError, ok |-> TRUE, body |-> Null],
     [kind |-> "response", error |-> NoError, ok |-> TRUE, body |-> SessionObject(Null)]}
    \cup {[kind |-> "response", error |-> NoError, ok |-> TRUE,
           body |-> SessionObject(RoleUser(c, roles))] : roles \in UserRoleChoices}

InitRoles ==
    /\ adapterHost \in {"ExpressAdapter", "FastifyAdapter"}
    /\ httpAdapter = "none"
    /\ options \in StaticChoices
    /\ nodeEnv \in {"production", "development", "test"}
    /\ reqs = [r \in Requests |-> NewRequest]
    /\ last = NoCall
    /\ started = 0
    /\ webIn = Undefined
    /\ webOut = Undefined
    /\ mw = NoMiddlewareCall
    /\ webResponse = Undefined
    /\ res = NewResponse
    /\ nodeStream = NoStream
    /\ coreSession = NotGiven
    /\ publicSession = NotGiven
    /\ \E config \in ModuleConfigs :
          pipeline = [NoPipeline EXCEPT !.guards = createGuardProviders(config)]

\* a request for a route arrives at the guards
Arrive ==
    /\ pipeline.pc = "idle"
    /\ \E pub \in BOOLEAN, required \in RequiredChoices :
          pipeline' = [NoPipeline EXCEPT !.pc = "guards", !.guards = pipeline.guards, !.at = 1,
                                         !.isPublic = pub, !.required = required]
    /\ UNCHANGED <<guardVars, webVars, outVars, sessionVars>>

\* the authentication guard is asked: canActivate of the class AuthGuard(), whose
\* getAuthenticateOptions returns undefined, runs to its end
RunAuthGuard ==
    /\ pipeline.pc = "guards"
    /\ pipeline.at <= Len(pipeline.guards)
    /\ pipeline.guards[pipeline.at] = "AuthGuard"
    /\ \E o \in RoleOutcomes("sid-a") :
        LET adapter == getOrCreateAdapter(httpAdapter, adapterHost)
            cfg == MergeOptions(nodeEnv, options, EmptyLayer)
            pre == getSessionPreconditions(cfg, nodeEnv)
            se  == getSessionOrError(IF pre.threw THEN pre ELSE getSessionInterpret(o))
            fin == HandleRoute(pipeline.isPublic, pipeline.props, cfg, nodeEnv, se)
            seen == [pipeline EXCEPT !.trace = Append(@, "AuthGuard"),
                                     !.invocations = IF adapter.threw \/ pre.threw THEN 0 ELSE 1,
                                     !.error = IF adapter.threw THEN adapter.error ELSE se.error]
        IN  IF adapter.threw
            THEN /\ pipeline' = [seen EXCEPT !.pc = "done",
                                             !.status = StatusOfError(adapter.error)]
                 /\ UNCHANGED httpAdapter
            ELSE /\ httpAdapter' = adapter.value.name
                 /\ pipeline' =
                      IF fin.result.threw
                      THEN [seen EXCEPT !.pc = "done",
                                        !.status = StatusOfError(fin.result.error)]
                      ELSE [seen EXCEPT !.at = @ + 1, !.props = fin.props, !.allowed = TRUE,
                                        !.authUser = fin.props[PropertyName(cfg, nodeEnv)]]
    /\ UNCHANGED <<adapterHost, options, nodeEnv, reqs, last, started,
                   webVars, outVars, sessionVars>>

\* the roles guard is asked
RunRolesGuard ==
    /\ pipeline.pc = "guards"
    /\ pipeline.at <= Len(pipeline.guards)
    /\ pipeline.guards[pipeline.at] = "RolesGuard"
    /\ LET result == RolesGuardCanActivate(pipeline.required, pipeline.props)
           seen == [pipeline EXCEPT !.trace = Append(@, "RolesGuard"), !.rolesRan = TRUE,
                                    !.seenRoles = userRoles(pipeline.props),
                                    !.rolesResult = result]
       IN  pipeline' = IF result THEN [seen EXCEPT !.at = @ + 1]
                       ELSE [seen EXCEPT !.pc = "done", !.status = 403]
    /\ UNCHANGED <<guardVars, webVars, outVars, sessionVars>>

\* every guard allowed the request: the route handler answers
RunHandler ==
    /\ pipeline.pc = "guards"
    /\ pipeline.at > Len(pipeline.guards)
    /\ pipeline' = [pipeline EXCEPT !.pc = "done", !.status = 200]
    /\ UNCHANGED <<guardVars, webVars, outVars, sessionVars>>

\* the response left; the next request gets a new request object
Depart ==
    /\ pipeline.pc = "done"
    /\ pipeline' = [NoPipeline EXCEPT !.guards = pipeline.guards]
    /\ UNCHANGED <<guardVars, webVars, outVars, sessionVars>>

NextRoles == Arrive \/ RunAuthGuard \/ RunRolesGuard \/ RunHandler \/ Depart

SpecRoles == InitRoles /\ [][NextRoles]_vars

-----------------------------------------------------------------------------
(* The application: one guard instance and one middleware instance of a    *)
(* module registered with its default configuration, serving one request   *)
(* at a time.  A request for an application route passes the guards; a     *)
(* request for an engine route is handed to AuthMiddleware.use.            *)

InitApp ==
    /\ adapterHost = "none"
    /\ httpAdapter = "none"
    /\ options = [providers |-> "[cred]", secret |-> "s1"]
    /\ nodeEnv = "production"
    /\ reqs = [r \in Requests |-> NewRequest]
    /\ last = NoCall
    /\ started = 0
    /\ webIn = Undefined
    /\ webOut = Undefined
    /\ mw = NoMiddlewareCall
    /\ webResponse = Undefined
    /\ res = NewResponse
    /\ nodeStream = NoStream
    /\ coreSession = NotGiven
    /\ publicSession = NotGiven
    /\ pipeline = [NoPipeline EXCEPT
                     !.guards = createGuardProviders([globalGuard |-> Undefined,
                                                      rolesGuard |-> Undefined])]

NextApp ==
    \/ AttachServer
    \/ mw.pc = "idle" /\ Arrive
    \/ mw.pc = "idle" /\ RunAuthGuard
    \/ mw.pc = "idle" /\ RunRolesGuard
    \/ mw.pc = "idle" /\ RunHandler
    \/ mw.pc = "idle" /\ Depart
    \/ pipeline.pc = "idle" /\ Use
    \/ pipeline.pc = "idle" /\ EngineAnswers
    \/ pipeline.pc = "idle" /\ StreamRead
    \/ pipeline.pc = "idle" /\ StreamWrite
    \/ pipeline.pc = "idle" /\ StreamEnd
    \/ pipeline.pc = "idle" /\ Finish

SpecApp == InitApp /\ [][NextApp]_vars

-----------------------------------------------------------------------------
(* What the properties below read of the call that ended last *)

\* the call ran one of the two route handlers as far as session resolution
Resolving == last.ctx = "http" /\ last.cfg # EmptyLayer

\* the merged configuration violates a precondition of session resolution
PreconditionViolated(cfg) ==
    \/ "providers" \notin DOMAIN cfg
    \/ cfg["providers"] = "[]"
    \/ /\ nodeEnv = "production"
       /\ ("secret" \notin DOMAIN cfg \/ cfg["secret"] = "")

\* the message of the configuration error that getSession raises for cfg
PreconditionMessage(cfg) ==
    IF "providers" \notin DOMAIN cfg \/ cfg["providers"] = "[]"
    THEN "No authentication providers configured"
    ELSE "AUTH_SECRET is required in production"

\* the engine answered, and its answer carries no user
AnsweredWithoutUser ==
    /\ last.outcome.kind = "response"
    /\ \/ ~last.outcome.ok
       \/ last.outcome.body.kind \in {"unparsable", "null", "scalar"}
       \/ /\ last.outcome.body.kind = "session"
          /\ last.outcome.body.user.kind # "object"

Allowed == ~last.result.threw /\ last.result.value = True

\* the name of the request property that holds the user in the call that ended last
LastProperty ==
    IF "property" \in DOMAIN last.dyn THEN last.dyn["property"]
    ELSE IF "property" \in DOMAIN options THEN options["property"]
    ELSE "user"

-----------------------------------------------------------------------------
(* C1 *)

\* C1: on a route that is not public, whenever session resolution ends without
\* an error and without a user (the engine answered with a failure status, an
\* unparsable body, a null session or a session that has no user object),
\* canActivate throws UnauthorizedException("No user found in session") and
\* does not return true.
C1_NoUserIsUnauthorized ==
    (Resolving /\ ~last.isPublic /\ AnsweredWithoutUser)
        => /\ last.result.threw
           /\ last.result.error = JsError("UnauthorizedException", "No user found in session")

\* a protected call whose engine answer was a session object without a user ended
C1_Witness ==
    /\ Resolving /\ ~last.isPublic
    /\ last.outcome.kind = "response" /\ last.outcome.ok
    /\ last.outcome.body = SessionObject(Undefined)
    /\ last.result.threw

-----------------------------------------------------------------------------
(* C2 *)

\* C2: on a public route canActivate never throws and returns true, whatever
\* happens while the session is resolved (the engine fails, the configuration
\* is invalid, the adapter is unavailable); when no session is resolved the
\* request carries session = null and a null user.
C2_PublicNeverThrows ==
    (last.ctx = "http" /\ last.isPublic)
        => /\ Allowed
           /\ last.resolved.session = Null
                => /\ last.after["session"] = Null
                   /\ last.after[LastProperty] = Null

-----------------------------------------------------------------------------
(* C3 *)

\* C3: on a protected route, whenever canActivate throws, the request's
\* session and user properties are what they were before the call; they are
\* written only when access is allowed, and then hold the resolved session
\* and its user.
C3_ThrowLeavesRequestAlone ==
    (last.ctx = "http" /\ ~last.isPublic)
        => /\ last.result.threw => last.after = last.before
           /\ Allowed => /\ last.after["session"] = last.outcome.body
                         /\ last.after[LastProperty] = last.outcome.body.user

\* a protected call threw on a request object that an earlier call had written
C3_Witness ==
    /\ Resolving /\ ~last.isPublic
    /\ last.result.threw
    /\ last.before["session"].kind = "session"
    /\ last.after = last.before

-----------------------------------------------------------------------------
(* C4 *)

\* C4: on a protected route every failure of session resolution (the engine
\* call throws, or a configuration precondition fails) ends canActivate with
\* an UnauthorizedException that has the message of the underlying error, and
\* no error of another type comes out of session resolution.
C4_ResolutionFailureIsUnauthorized ==
    (Resolving /\ ~last.isPublic)
        => /\ last.result.threw => last.result.error.type = "UnauthorizedException"
           /\ last.invocations = 0
                => /\ last.result.threw
                   /\ last.result.error.message = PreconditionMessage(last.cfg)
           /\ (last.invocations = 1 /\ last.outcome.kind = "throw")
                => /\ last.result.threw
                   /\ last.result.error.message = last.outcome.error.message

\* a protected call whose engine call threw a plain Error ended
C4_Witness ==
    /\ Resolving /\ ~last.isPublic
    /\ last.outcome.kind = "throw"
    /\ last.outcome.error.type = "Error"
    /\ last.result.threw

-----------------------------------------------------------------------------
(* C5 *)

\* C5: session resolution yields null and raises nothing whenever the engine
\* answers with a status that is not a success, and whenever the body of a
\* success answer does not parse as a session payload.
C5_BadAnswerResolvesToNull ==
    (Resolving /\ last.outcome.kind = "response"
        /\ (~last.outcome.ok \/ last.outcome.body.kind = "unparsable"))
        => /\ last.resolved.session = Null
           /\ last.resolved.error = NoError
           /\ last.isPublic => Allowed /\ last.after["session"] = Null

\* a call whose engine answer was a success with an unparsable body ended
C5_Witness ==
    /\ Resolving
    /\ last.outcome.kind = "response" /\ last.outcome.ok
    /\ last.outcome.body.kind = "unparsable"
    /\ last.resolved.session = Null

-----------------------------------------------------------------------------
(* C6 *)

\* C6 as stated: a violated configuration precondition is never turned into an
\* anonymous result: canActivate does not return true with a null session for
\* such a configuration, on the public path as on the protected path.
C6_ConfigErrorNeverAnonymous ==
    (Resolving /\ PreconditionViolated(last.cfg))
        => ~(Allowed /\ last.after["session"] = Null)

\* C6 as amended: a violated configuration precondition fails the protected
\* path with an UnauthorizedException carrying the configuration error's
\* message; the public path absorbs it: canActivate returns true with a null
\* session and a null user.  On neither path is the engine invoked.  A call
\* that finds no adapter does not get as far as the configuration: it throws
\* the adapter's plain Error on either path and writes nothing.
C6_ConfigErrorByPath ==
    /\ (Resolving /\ PreconditionViolated(last.cfg))
          => /\ last.invocations = 0
             /\ ~last.isPublic
                  => /\ last.result.threw
                     /\ last.result.error =
                          JsError("UnauthorizedException", PreconditionMessage(last.cfg))
             /\ last.isPublic
                  => /\ Allowed
                     /\ last.after["session"] = Null
                     /\ last.after[LastProperty] = Null
    /\ (last.ctx = "http" /\ ~Resolving)
          => /\ last.invocations = 0
             /\ last.result.threw
             /\ last.result.error.type = "Error"
             /\ last.after = last.before

\* a public call under a configuration without a provider ended with true
C6_Witness ==
    /\ Resolving /\ last.isPublic
    /\ PreconditionViolated(last.cfg)
    /\ Allowed
    /\ last.after["session"] = Null

-----------------------------------------------------------------------------
(* C7 *)

\* the value that key k has in the last of the three layers that contains it
LastLayerValue(k, dyn) ==
    IF k \in DOMAIN dyn THEN dyn[k]
    ELSE IF k \in DOMAIN options THEN options[k]
    ELSE defaultOptions(nodeEnv)[k]

LayerKeys(dyn) == (DOMAIN dyn) \cup (DOMAIN options) \cup (DOMAIN defaultOptions(nodeEnv))

\* the configuration c was merged from the per-call options dyn as C7 says
MergedByPrecedence(c, dyn) ==
    /\ LayerKeys(dyn) \subseteq DOMAIN c
    /\ \A k \in LayerKeys(dyn) : c[k] = LastLayerValue(k, dyn)

-----------------------------------------------------------------------------
(* C8 *)

-----------------------------------------------------------------------------
(* C9 *)

IsNonEmpty(v) == v # <<>>

\* the values of a native header that are not empty, in their order
NonEmptyValues(value) ==
    IF value.kind = "array" THEN SelectSeq(value.a, IsNonEmpty)
    ELSE IF value.kind = "string" /\ value.s # <<>> THEN <<value.s>>
    ELSE <<>>

Translated == webIn.kind = "native" /\ webOut # Undefined

\* C9: toWebRequest forwards, for every native header, exactly its non-empty
\* values: the non-empty elements of an array in their order, a non-empty
\* scalar once; a header whose value is undefined, empty or an array of
\* nothing but empty elements is absent from the canonical request.
C9_HeadersFiltered ==
    Translated =>
        /\ ~webOut.threw
        /\ \A i \in 1..Len(webIn.headers) :
              LET e == webIn.headers[i]
              IN  IF NonEmptyValues(e.value) = <<>>
                  THEN e.name \notin DOMAIN webOut.value.headers
                  ELSE /\ e.name \in DOMAIN webOut.value.headers
                       /\ webOut.value.headers[e.name] = NonEmptyValues(e.value)
        /\ \A n \in DOMAIN webOut.value.headers :
              \E i \in 1..Len(webIn.headers) : webIn.headers[i].name = n

\* a header whose array value has an empty element between two others was translated
C9_Witness ==
    /\ Translated
    /\ \E i \in 1..Len(webIn.headers) :
          /\ webIn.headers[i].name = "x-array"
          /\ webIn.headers[i].value = Arr(<<Word("first"), <<>>, Word("second")>>)
    /\ webOut.value.headers["x-array"] = <<Word("first"), Word("second")>>

-----------------------------------------------------------------------------
(* C10 *)

\* the spellings of GET and HEAD in any letter case
IsGetOrHead(m) ==
    \/ /\ Len(m) = 3
       /\ m[1] \in {"G", "g"} /\ m[2] \in {"E", "e"} /\ m[3] \in {"T", "t"}
    \/ /\ Len(m) = 4
       /\ m[1] \in {"H", "h"} /\ m[2] \in {"E", "e"} /\ m[3] \in {"A", "a"} /\ m[4] \in {"D", "d"}

\* C10: for every native request whose method is GET or HEAD in any letter
\* case the canonical request is built and has no body, whatever the native
\* body accessor returns.
C10_GetHeadHaveNoBody ==
    (Translated /\ IsGetOrHead(webIn.method))
        => /\ ~webOut.threw
           /\ webOut.value.body = Undefined

\* a lower-case get whose native body is a parsed object was translated
C10_Witness ==
    /\ Translated
    /\ webIn.method = <<"g", "e", "t">>
    /\ webIn.body.kind = "object"
    /\ ~webOut.threw
    /\ webOut.value.body = Undefined

-----------------------------------------------------------------------------
(* C11 *)

\* the native request has a content-type value that contains the media type
NativeContentType(mediaType) ==
    \E i \in 1..Len(webIn.headers) :
        /\ webIn.headers[i].name = "content-type"
        /\ \E j \in 1..Len(NonEmptyValues(webIn.headers[i].value)) :
              Contains(NonEmptyValues(webIn.headers[i].value)[j], mediaType)

\* the key/value pairs of a parsed body, a key once for each of its values
RECURSIVE RepeatedPairs(_)
RepeatedPairs(entries) ==
    IF entries = <<>> THEN <<>>
    ELSE [i \in 1..Len(Head(entries).v) |-> <<Head(entries).k, Head(entries).v[i].x>>]
            \o RepeatedPairs(Tail(entries))

\* the key/value pairs that a form-encoded string reads as: key=value joined by &
RECURSIVE FormDecode(_)
FormDecode(s) ==
    IF s = <<>> THEN <<>>
    ELSE IF Len(s) >= 3 /\ s[2] = "=" /\ (Len(s) = 3 \/ s[4] = "&")
    THEN <<<<s[1], s[3]>>>> \o FormDecode(SubSeq(s, 5, Len(s)))
    ELSE <<<<"malformed", "malformed">>>>

\* JSON.parse of a scalar at position i of s: the value and the position after it
ParseValue(s, i) ==
    IF s[i] = "'" THEN [v |-> JsString(s[i + 1]), next |-> i + 3]
    ELSE [v |-> JsNumber(s[i]), next |-> i + 1]

\* JSON.parse of the elements of an array from position i of s on
RECURSIVE ParseArray(_, _, _)
ParseArray(s, i, acc) ==
    IF s[i] = "]" THEN [v |-> acc, next |-> i + 1]
    ELSE IF s[i] = "," THEN ParseArray(s, i + 1, acc)
    ELSE ParseArray(s, ParseValue(s, i).next, Append(acc, ParseValue(s, i).v))

\* JSON.parse of the entries of an object from position i of s on
RECURSIVE ParseEntries(_, _, _)
ParseEntries(s, i, acc) ==
    IF s[i] = "}" THEN acc
    ELSE IF s[i] = "," THEN ParseEntries(s, i + 1, acc)
    ELSE IF s[i + 4] = "["
    THEN LET a == ParseArray(s, i + 5, <<>>)
         IN  ParseEntries(s, a.next, Append(acc, [k |-> s[i + 1], isArray |-> TRUE, v |-> a.v]))
    ELSE LET p == ParseValue(s, i + 4)
         IN  ParseEntries(s, p.next, Append(acc, [k |-> s[i + 1], isArray |-> FALSE, v |-> <<p.v>>]))

\* request.json(): the object that the text of a body parses to
JSONparse(s) == [kind |-> "object", entries |-> ParseEntries(s, 2, <<>>)]

\* C11: for a request that is not GET or HEAD the canonical body follows the
\* content-type: under a form content-type a parsed object is written as
\* key=value pairs joined by &, a key repeated for each element of an array;
\* under a JSON content-type it is written as a text that parses back to the
\* same object; under any other content-type a string arrives unchanged, a
\* buffer arrives with the same bytes and a parsed object is written as under
\* the form content-type; a body that is null or undefined gives no body.
C11_BodyEncodedByContentType ==
    (Translated /\ ~IsGetOrHead(webIn.method))
        => /\ ~webOut.threw
           /\ LET b    == webIn.body
                  out  == webOut.value.body
                  form == NativeContentType(FormType)
                  json == NativeContentType(JsonType)
              IN  /\ IsNullish(b) => out = Undefined
                  /\ (b.kind = "object" /\ ~json)
                        => /\ out.kind = "string"
                           /\ FormDecode(out.s) = RepeatedPairs(b.entries)
                  /\ (b.kind = "object" /\ json /\ ~form)
                        => /\ out.kind = "string"
                           /\ JSONparse(out.s) = b
                  /\ (b.kind = "string" /\ ~form /\ ~json) => out = b
                  /\ (b.kind = "buffer" /\ ~form /\ ~json)
                        => /\ out.kind = "uint8array"
                           /\ out.bytes = b.bytes

\* a PUT with a form content-type and the parsed body a = [1, 2] was translated to a=1&a=2
C11_Witness ==
    /\ Translated
    /\ webIn.method = <<"P", "U", "T">>
    /\ NativeContentType(FormType)
    /\ webIn.body.kind = "object"
    /\ webIn.body.entries[1].isArray
    /\ ~webOut.threw
    /\ webOut.value.body = Str(<<"a", "=", "1", "&", "a", "=", "2">>)

-----------------------------------------------------------------------------
(* C12 *)

IsSetCookie(e) == e.name = "Set-Cookie"

\* the cookie strings of the engine's response, in the order of their occurrences
ResponseCookies ==
    LET occurrences == SelectSeq(webResponse.headers, IsSetCookie)
    IN  [i \in 1..Len(occurrences) |-> occurrences[i].value]

IsSetCookieCall(c) == c.op = "setHeader" /\ c.key = "set-cookie"

\* toHttpResponse has made all its write calls for the engine's response
Written == webResponse # Undefined /\ mw.toHttpResponse.state = "resolved"

\* C12: when the engine's response has n >= 1 Set-Cookie occurrences, the
\* write calls of toHttpResponse hold exactly one setHeader call for
\* set-cookie, and its value is the array of the n cookie strings in their
\* original order, each one whole.
C12_SetCookieGrouped ==
    (Written /\ Len(ResponseCookies) >= 1)
        => /\ Len(SelectSeq(res.calls, IsSetCookieCall)) = 1
           /\ SelectSeq(res.calls, IsSetCookieCall)[1].value = Arr(ResponseCookies)

\* a response with two cookies around a Location header was written
C12_Witness ==
    /\ Written
    /\ Len(webResponse.headers) = 3
    /\ webResponse.headers[2] = LocationHeader
    /\ \E i \in 1..Len(res.calls) :
          /\ res.calls[i].op = "setHeader"
          /\ res.calls[i].key = "set-cookie"
          /\ res.calls[i].value = Arr(<<Cookie(1), Cookie(2)>>)

-----------------------------------------------------------------------------
(* C13 *)

\* the positions of the calls of a write method among the calls on the native response
Positions(op) == {i \in 1..Len(res.calls) : res.calls[i].op = op}

\* C13: among the calls on the native response every setHeader comes before
\* setStatus and setStatus before send; send is never called twice, and it is
\* called exactly once, after exactly one setStatus, when toHttpResponse runs
\* to its end; what follows send is the relay of the body only, never a
\* header or a status.
C13_HeadersStatusThenSend ==
    /\ \A i \in Positions("setHeader") : \A j \in Positions("setStatus") : i < j
    /\ \A i \in Positions("setStatus") : \A j \in Positions("send") : i < j
    /\ Cardinality(Positions("send")) <= 1
    /\ Written => Cardinality(Positions("send")) = 1 /\ Cardinality(Positions("setStatus")) = 1
    /\ \A i \in Positions("send") : \A j \in 1..Len(res.calls) :
          j > i => res.calls[j].op \in {"write", "end"}

\* a response with a header and a streaming body was written and a chunk relayed
C13_Witness ==
    /\ Written
    /\ Positions("setHeader") # {}
    /\ Positions("send") # {}
    /\ Positions("write") # {}
    /\ \A i \in Positions("setHeader") : \A j \in Positions("send") : i < j

-----------------------------------------------------------------------------
(* C14 *)

IsWriteCall(c) == c.op = "write"

\* the chunks that were written to the native response so far, in their order
Relayed ==
    LET w == SelectSeq(res.calls, IsWriteCall)
    IN  [i \in 1..Len(w) |-> w[i].value.bytes]

RECURSIVE Concat(_)
Concat(chunks) == IF chunks = <<>> THEN <<>> ELSE Head(chunks) \o Concat(Tail(chunks))

\* the body of the engine's response is being relayed, or was
Relaying == webResponse # Undefined /\ nodeStream.kind = "stream"

\* C14: while a streaming body is relayed, the chunks written to the native
\* response are the first chunks of the body, one write for each, in their
\* order; a chunk is written before the one after the next is read, so the
\* body is never collected; the response is finalized only when every chunk
\* was written, and then the bytes written are the bytes of the body.
C14_ChunksRelayedInOrder ==
    Relaying =>
        /\ Len(Relayed) <= Len(webResponse.body.chunks)
        /\ Relayed = SubSeq(webResponse.body.chunks, 1, Len(Relayed))
        /\ nodeStream.read <= Len(Relayed) + 1
        /\ res.state = "ended"
              => /\ Relayed = webResponse.body.chunks
                 /\ Concat(Relayed) = Concat(webResponse.body.chunks)
                 /\ res.calls[Len(res.calls)].op = "end"

\* the first chunk of a body of two was written before the second was read
C14_Witness ==
    /\ Relaying
    /\ Len(webResponse.body.chunks) = 2
    /\ ~webResponse.body.fails
    /\ nodeStream.read = 1
    /\ Len(Relayed) = 1
    /\ res.state = "open"

-----------------------------------------------------------------------------
(* C15 *)

\* C15: when reading the body of the engine's response fails after chunks
\* of it were written, toHttpResponse rejects with the error of the read, the middleware
\* hands that error to next, and the native response is not finalized as if
\* the chunks written so far were the whole body.
C15_StreamErrorPropagates ==
    (Relaying /\ nodeStream.error # NoError /\ Len(Relayed) >= 1)
        => /\ mw.toHttpResponse = [state |-> "rejected", error |-> nodeStream.error]
           /\ \E i \in 1..Len(mw.nextCalls) : mw.nextCalls[i] = nodeStream.error
           /\ res.state # "ended"

-----------------------------------------------------------------------------
(* C16 *)

\* C16: when a write call on the native response throws, toHttpResponse
\* rejects with the error thrown, the calls made on the response are those
\* before the failing one and nothing is written afterwards, and the
\* middleware calls next once, with that same error.
C16_WriteErrorPropagates ==
    (webResponse # Undefined /\ res.throwsAt > 0)
        => /\ mw.toHttpResponse = [state |-> "rejected", error |-> WriteError]
           /\ Len(res.calls) = res.throwsAt - 1
           /\ \A i \in 1..Len(res.calls) : res.calls[i].op \in {"setHeader", "setStatus"}
           /\ nodeStream.kind = "none"
           /\ res.state = "open"
           /\ mw.nextCalls = <<WriteError>>

\* setStatus threw after two headers were set, and next got the error
C16_Witness ==
    /\ webResponse # Undefined
    /\ res.throwsAt = 3
    /\ Len(res.calls) = 2
    /\ res.calls[2].op = "setHeader"
    /\ mw.toHttpResponse.state = "rejected"
    /\ mw.nextCalls = <<WriteError>>

-----------------------------------------------------------------------------
(* C17 *)

\* C17: when the engine answered and the middleware has written the answer
\* to the native response, the middleware has not called next.
C17_HandledDoesNotCallNext ==
    Written => mw.nextCalls = <<>>

-----------------------------------------------------------------------------
(* C18 *)

\* the projection ran on a raw session that is an object
ProjectedObject ==
    /\ coreSession.kind = "object"
    /\ publicSession # NotGiven

\* the own properties of object obj that props lacks or has with another descriptor
Lost(obj, props, except) ==
    {k \in (DOMAIN obj.props) \ except : k \notin DOMAIN props \/ props[k] # obj.props[k]}

\* C18: the projection of a raw session object has every own property of the
\* raw session other than user and expires, and its user has every own
\* property of the raw user other than name, email and image, each with the
\* descriptor it has on the source (its value or getter, enumerable or not).
C18_ExtensionsKept ==
    ProjectedObject =>
        /\ publicSession.kind = "object"
        /\ Lost(coreSession, publicSession.props, {"user", "expires"}) = {}
        /\ Get(coreSession, "user").kind = "object"
              => /\ Get(publicSession, "user").kind = "object"
                 /\ Lost(Get(coreSession, "user"), Get(publicSession, "user").props,
                         BaseUserFields) = {}

\* a session with a hidden idToken and a user with computed roles was projected
C18_Witness ==
    /\ ProjectedObject
    /\ "idToken" \in DOMAIN coreSession.props
    /\ ~coreSession.props["idToken"].enumerable
    /\ Get(coreSession, "user").kind = "object"
    /\ "roles" \in DOMAIN Get(coreSession, "user").props
    /\ Get(coreSession, "user").props["roles"].kind = "accessor"
    /\ publicSession.props["idToken"] = coreSession.props["idToken"]
    /\ Get(publicSession, "user").props["roles"] = Get(coreSession, "user").props["roles"]

-----------------------------------------------------------------------------
(* C19 *)

Projected == coreSession # NotGiven /\ publicSession # NotGiven

\* the raw session is absent
SourceAbsent == coreSession.kind \in {"undefined", "null"}

\* the raw session has a user
SourceHasUser == Get(coreSession, "user").kind \notin {"undefined", "null"}

\* C19 as stated: the projection is null when the raw session is absent and
\* when the raw session has no user, and not null only for a raw session
\* that has a user.
C19_NullWithoutSessionOrUser ==
    Projected => (publicSession = Null <=> (SourceAbsent \/ ~SourceHasUser))

\* C19 as amended: the projection is null exactly when the raw session is
\* absent (null, undefined or another falsy value); the projection of a raw
\* session that has no user object is a session whose user is null.
C19_NullOnlyWithoutSession ==
    Projected =>
        /\ publicSession = Null <=> coreSession.kind \in {"undefined", "null", "falsy"}
        /\ (publicSession # Null /\ Get(coreSession, "user").kind # "object")
              => Get(publicSession, "user") = Null

\* a raw session object without a user was projected to a session whose user is null
C19_Witness ==
    /\ Projected
    /\ coreSession.kind = "object"
    /\ "user" \notin DOMAIN coreSession.props
    /\ publicSession.kind = "object"
    /\ Get(publicSession, "user") = Null

-----------------------------------------------------------------------------
(* C20 *)

Recognised == {"ExpressAdapter", "FastifyAdapter"}

\* a canActivate call on an HTTP route ended in this step
HttpCallEnds == last' # last /\ last'.ctx = "http"

-----------------------------------------------------------------------------
(* C21 *)

\* the roles of a sequence, as a set
RoleSet(list) == {list[i] : i \in 1..Len(list)}

\* the roles the route requires; none when the metadata is absent or empty
RequiredRoleSet == IF pipeline.required.kind = "array" THEN RoleSet(pipeline.required.a) ELSE {}

\* the roles of a user value; none for what is not a user object with a role list
RolesOfUser(u) ==
    IF u.kind # "object" THEN {}
    ELSE IF u.roles.kind # "array" THEN {}
    ELSE RoleSet(u.roles.a)

\* C21: the roles guard returns true exactly when the route requires no roles
\* (no metadata, or an empty list) or the user of the request has at least one
\* of the required roles; when roles are required and the request has no user,
\* or its user has no roles, it returns false.
C21_RolesGuardDecision ==
    pipeline.rolesRan =>
        /\ pipeline.rolesResult <=>
              \/ RequiredRoleSet = {}
              \/ RequiredRoleSet \cap RolesOfUser(pipeline.props["user"]) # {}
        /\ (RequiredRoleSet # {} /\ RolesOfUser(pipeline.props["user"]) = {})
              => ~pipeline.rolesResult

\* a user with two roles, one of them among the two the route requires, was let through
C21_Witness ==
    /\ pipeline.rolesRan
    /\ pipeline.rolesResult
    /\ Cardinality(RequiredRoleSet) = 2
    /\ Cardinality(RolesOfUser(pipeline.props["user"])) = 2

-----------------------------------------------------------------------------
(* C22 *)

\* both global guards are registered
BothGuards == RoleSet(pipeline.guards) = {"AuthGuard", "RolesGuard"}

Answered == pipeline.pc = "done"

\* the authentication guard found no user for the request
Unauthenticated ==
    /\ pipeline.trace # <<>>
    /\ pipeline.trace[1] = "AuthGuard"
    /\ (~pipeline.allowed \/ pipeline.authUser.kind # "object")

\* the authentication guard resolved a user who has none of the required roles
AuthenticatedWithoutRole ==
    /\ pipeline.allowed
    /\ pipeline.authUser.kind = "object"
    /\ RequiredRoleSet \cap RolesOfUser(pipeline.authUser) = {}

\* the roles guard is never asked before the authentication guard
AuthGuardFirst ==
    \A i \in 1..Len(pipeline.trace) :
        pipeline.trace[i] = "RolesGuard" => (i = 2 /\ pipeline.trace[1] = "AuthGuard")

\* C22 as stated: with both guards registered the authentication guard is asked
\* first; an unauthenticated request to a route that requires roles is answered
\* 401, and an authenticated request whose user has none of the required roles
\* is answered 403.
C22_AuthBeforeRoles ==
    BothGuards =>
        /\ AuthGuardFirst
        /\ (Answered /\ RequiredRoleSet # {} /\ Unauthenticated) => pipeline.status = 401
        /\ (Answered /\ RequiredRoleSet # {} /\ AuthenticatedWithoutRole)
              => pipeline.status = 403

\* C22, amended: as above for a route that is not public; on a public route that
\* requires roles the unauthenticated request passes the authentication guard
\* and is answered 403 by the roles guard.
C22_AuthBeforeRolesUnlessPublic ==
    BothGuards =>
        /\ AuthGuardFirst
        /\ (Answered /\ RequiredRoleSet # {} /\ Unauthenticated /\ ~pipeline.isPublic)
              => pipeline.status = 401
        /\ (Answered /\ RequiredRoleSet # {} /\ Unauthenticated /\ pipeline.isPublic)
              => pipeline.status = 403
        /\ (Answered /\ RequiredRoleSet # {} /\ AuthenticatedWithoutRole)
              => pipeline.status = 403

\* an unauthenticated request to a protected route that requires roles was
\* answered 401 and the roles guard was not asked
C22_Witness ==
    /\ BothGuards
    /\ Answered
    /\ RequiredRoleSet # {}
    /\ ~pipeline.isPublic
    /\ Unauthenticated
    /\ pipeline.trace = <<"AuthGuard">>
    /\ pipeline.status = 401

-----------------------------------------------------------------------------
(* C23 *)

\* the role list of a user value, as the roles guard would read it off the user
RoleListOf(u) ==
    IF u.kind # "object" THEN <<>>
    ELSE IF u.roles.kind # "array" THEN <<>>
    ELSE u.roles.a

\* C23: when the authentication guard allowed the request, the role list the
\* roles guard reads is the role list of the user that guard resolved,
\* whatever the name of the property the user is attached under.
C23_RolesCheckSeesResolvedUser ==
    (pipeline.allowed /\ pipeline.rolesRan) =>
        pipeline.seenRoles = RoleListOf(pipeline.authUser)

-----------------------------------------------------------------------------
(* C24 *)

\* the authentication guard was asked for the request in hand
AuthGuardAsked == \E i \in 1..Len(pipeline.trace) : pipeline.trace[i] = "AuthGuard"

\* the configuration the guard resolves the session with
PipelineConfig == MergeOptions(nodeEnv, options, EmptyLayer)

ConfigurationErrors ==
    {JsError("Error", "No authentication providers configured"),
     JsError("Error", "AUTH_SECRET is required in production")}

\* C24 as stated: the engine is invoked exactly when a provider is configured
\* and a secret is present or NODE_ENV is development; otherwise the resolution
\* fails with a configuration error and the engine is not invoked.
C24_EngineOnlyWhenConfigured ==
    AuthGuardAsked =>
        IF /\ ProvidersLength(PipelineConfig) > 0
           /\ (~SecretMissing(PipelineConfig) \/ nodeEnv = "development")
        THEN pipeline.invocations = 1
        ELSE pipeline.invocations = 0 /\ pipeline.error \in ConfigurationErrors

\* C24, amended: the engine is invoked exactly when a provider is configured
\* and a secret is present or NODE_ENV is not production; otherwise the
\* resolution fails with a configuration error and the engine is not invoked.
C24_EngineUnlessProductionWithoutSecret ==
    AuthGuardAsked =>
        IF /\ ProvidersLength(PipelineConfig) > 0
           /\ (~SecretMissing(PipelineConfig) \/ nodeEnv # "production")
        THEN pipeline.invocations = 1
        ELSE pipeline.invocations = 0 /\ pipeline.error \in ConfigurationErrors

\* the engine was invoked without a secret in a process that is neither in
\* production nor in development
C24_Witness ==
    /\ AuthGuardAsked
    /\ nodeEnv = "test"
    /\ ProvidersLength(PipelineConfig) > 0
    /\ SecretMissing(PipelineConfig)
    /\ pipeline.invocations = 1

-----------------------------------------------------------------------------
(* C25 *)

-----------------------------------------------------------------------------
(* C26 *)

\* what request object r carries comes from the engine's answers to the cookie of r
OwnSessionOnly(r) ==
    /\ reqs[r].props["session"] \in {Undefined, Null} \cup SessionPayloads(r)
    /\ \A k \in PropNames \ {"session"} :
          reqs[r].props[k] \in {Undefined, Null, UserObject(r)}

\* the call that ended last attached what the engine answered to it
AttachedOwnAnswer ==
    (last.invocations = 1 /\ ~last.result.threw) =>
        /\ last.outcome \in EngineOutcomes(last.req)
        /\ last.after["session"] = getSessionOrError(getSessionInterpret(last.outcome)).session
        /\ last.after[LastProperty] = PublicUser(last.after["session"])
        /\ reqs[last.req].props = last.after

-----------------------------------------------------------------------------
(* C27 *)

\* C27: use calls next at most once for a request, also when next throws; it
\* never calls next() and then next(error).
C27_NextAtMostOnce ==
    Len(mw.nextCalls) <= 1

-----------------------------------------------------------------------------
(* C28 *)

\* the value of a key in a configuration; "absent" when it does not contain the key
ValueIn(cfg, k) == IF k \in DOMAIN cfg THEN cfg[k] ELSE "absent"

\* C28: the configuration the guard invoked the engine with and the
\* configuration the middleware invokes it with under the same module options
\* agree on every key, the session strategy, the secure-cookie setting and
\* the base path among them.
C28_SameConfigBothPaths ==
    last.invocations = 1 =>
        \A k \in (DOMAIN last.handed) \cup (DOMAIN MiddlewareConfig(options)) \cup
                 {"session", "useSecureCookies", "basePath"} :
            ValueIn(last.handed, k) = ValueIn(MiddlewareConfig(options), k)

-----------------------------------------------------------------------------
(* C29 *)

\* a canActivate call on a context that is not HTTP ran in this step: a call
\* started, none was suspended, and the call that ended last is not an HTTP one
NonHttpCallRan ==
    /\ started' # started
    /\ \A r \in Requests : reqs'[r].pc = reqs[r].pc
    /\ last'.ctx = "rpc"

\* C29: a canActivate call on an execution context that is not HTTP returns
\* true, does not invoke the engine, leaves the adapter cache as it was and
\* changes no property of any request object.
C29_NonHttpPassesUntouched ==
    [][NonHttpCallRan =>
          /\ last'.result = Returned(True)
          /\ last'.invocations = 0
          /\ httpAdapter' = httpAdapter
          /\ \A r \in Requests : reqs'[r].props = reqs[r].props
      ]_vars

\* a call on an RPC context returned true on an application whose server is
\* attached, and the adapter cache is still empty
C29_Witness ==
    /\ last.ctx = "rpc"
    /\ last.result = Returned(True)
    /\ adapterHost = "ExpressAdapter"
    /\ httpAdapter = "none"
    /\ last.before = last.after

-----------------------------------------------------------------------------
(* C30 *)

\* C30: for a request that is not GET or HEAD and whose native body is a
\* string, the canonical body is that same string under every content-type,
\* the JSON and the form content-type included.
C30_StringBodyPassedThrough ==
    (Translated /\ ~IsGetOrHead(webIn.method) /\ webIn.body.kind = "string")
        => /\ ~webOut.threw
           /\ webOut.value.body = webIn.body

====
